---- MODULE Spec2Model ----
(***************************************************************************)
(* ISO BMFF box builder and parser (Box, Container, the element kinds and  *)
(* the BOXSPEC registry), as a state machine over a heap of box objects.   *)
(*                                                                         *)
(* JavaScript values are tagged records [t, v]: a number is four base-65536*)
(* limbs, most significant first (TLC's integers stop at 2^31 - 1 and the  *)
(* registry holds 0xffffffff), a string is the sequence of its character   *)
(* codes, an array is a sequence of numbers.  Offsets and byte lengths are *)
(* plain integers.  A buffer is [bytes, err]: err names the exception that *)
(* aborted the operation writing to it, "none" when there was none.        *)
(***************************************************************************)
EXTENDS Integers, Sequences, FiniteSets, TLC

VARIABLES
  heap,        \* the box objects, by identity: heap[id] is a Box or Container
  specArrays,  \* the array objects held by BOXSPEC as default values
  out,         \* what the last buffer() call returned
  pc,          \* "build", or where the running parse() is
  stack,       \* the frames of the (recursive) parse() calls
  result,      \* the track list parse() returned
  input,       \* the bytes handed to parse(), with what they were made from
  last,        \* the last operation called and how it ended
  webSocketConfig,  \* openWebSocket: the WebSocketConfig of the call
  promise,     \* the promise openWebSocket returned
  ws,          \* the first WebSocket, with its handlers
  ws2,         \* the WebSocket opened with the token
  request,     \* the XMLHttpRequest that fetches the token
  countdown,   \* when the countdown timeout is due
  timeoutInterval,  \* when the interval running checkTimeout is due next
  lastMessageTime,
  now,         \* Date.now(), in ms since the call
  events       \* how often each custom event was emitted

boxVars == <<heap, specArrays, out, pc, stack, result, input, last>>

wsVars ==
  <<webSocketConfig, promise, ws, ws2, request, countdown, timeoutInterval, lastMessageTime, now, events>>

vars ==
  <<heap, specArrays, out, pc, stack, result, input, last,
    webSocketConfig, promise, ws, ws2, request, countdown, timeoutInterval, lastMessageTime, now, events>>

----------------------------------------------------------------------------
\* Numbers

Limb == 65536

\* The number n, for n below 2^31.
N(n) == <<0, 0, n \div Limb, n % Limb>>

\* The number h * 2^16 + l.
N32(h, l) == <<0, 0, h, l>>

\* UINT32_RANGE = 2^32
UINT32_RANGE == <<0, 1, 0, 0>>

\* x fits a TLC integer.
IsSmall(x) == x[1] = 0 /\ x[2] = 0 /\ x[3] < 32768

ToInt(x) == x[3] * Limb + x[4]

\* min(x, cap) as an integer, for a cap below 2^31.
MinInt(x, cap) == IF IsSmall(x) /\ ToInt(x) < cap THEN ToInt(x) ELSE cap

\* 0 <= x < 2^(8 * nbytes)
InRange(x, nbytes) ==
  CASE nbytes = 1 -> x[1] = 0 /\ x[2] = 0 /\ x[3] = 0 /\ x[4] < 256
    [] nbytes = 2 -> x[1] = 0 /\ x[2] = 0 /\ x[3] = 0
    [] nbytes = 3 -> x[1] = 0 /\ x[2] = 0 /\ x[3] < 256
    [] nbytes = 4 -> x[1] = 0 /\ x[2] = 0

\* The low nbytes bytes of x, big-endian.
BytesBE(x, nbytes) ==
  LET all == <<x[1] \div 256, x[1] % 256, x[2] \div 256, x[2] % 256,
               x[3] \div 256, x[3] % 256, x[4] \div 256, x[4] % 256>>
  IN  SubSeq(all, 9 - nbytes, 8)

\* The number whose big-endian bytes are bs (at most 8 of them).
FromBytesBE(bs) ==
  LET all == [i \in 1..8 |-> IF i <= 8 - Len(bs) THEN 0 ELSE bs[i - (8 - Len(bs))]]
  IN  <<all[1] * 256 + all[2], all[3] * 256 + all[4],
        all[5] * 256 + all[6], all[7] * 256 + all[8]>>

\* An or that loses its first operand: the count byte without the mask.
BitOr_unmasked(a, b) == b

RECURSIVE BitOr(_, _)
BitOr(a, b) ==
  IF a = 0 THEN b
  ELSE IF b = 0 THEN a
  ELSE 2 * BitOr(a \div 2, b \div 2) + (IF a % 2 = 1 \/ b % 2 = 1 THEN 1 ELSE 0)

----------------------------------------------------------------------------
\* JavaScript values

JNum(x) == [t |-> "num", v |-> x]
JStr(s) == [t |-> "str", v |-> s]
JArr(a) == [t |-> "arr", v |-> a]
\* an array of byte arrays (the parameter sets of avcC)
JArr2(a) == [t |-> "arr2", v |-> a]
\* one of the array objects of BOXSPEC_arrays, by reference
JRef(k) == [t |-> "ref", v |-> k]
JUndef == [t |-> "undef", v |-> <<>>]

\* if (value): 0, '' and undefined are falsy, every array is truthy.
Truthy(x) ==
  CASE x.t = "num" -> x.v # N(0)
    [] x.t = "str" -> x.v # <<>>
    [] x.t = "undef" -> FALSE
    [] OTHER -> TRUE

\* The array an array value stands for.
Deref(sa, x) == IF x.t = "ref" THEN JArr(sa[x.v]) ELSE x

NoConfig == [k \in {} |-> JUndef]

\* const value = ...; Body: the value is computed once and named in what follows.
With(value, Body(_)) == Body(value)

----------------------------------------------------------------------------
\* Buffers and the byte codec (utils/bytes)

NewBuffer(n) == [bytes |-> [i \in 1..n |-> 0], err |-> "none"]

Fail(b, e) == [b EXCEPT !.err = e]

\* bytes with bs stored from offset on; what falls outside bytes is dropped.
Patch(bytes, offset, bs) ==
  [i \in 1..Len(bytes) |->
     IF i > offset /\ i <= offset + Len(bs) THEN bs[i - offset] ELSE bytes[i]]

\* buffer.subarray(begin, end) and buffer.slice(begin, end): both clamp.
subarray(bytes, begin, end) ==
  LET e == IF end > Len(bytes) THEN Len(bytes) ELSE end
  IN  IF begin >= e THEN <<>> ELSE SubSeq(bytes, begin + 1, e)

writeUInt(b, offset, value, nbytes) ==
  IF b.err # "none" THEN b
  ELSE IF value.t # "num" \/ ~InRange(value.v, nbytes) THEN Fail(b, "ValueOutOfRange")
  ELSE IF offset + nbytes > Len(b.bytes) THEN Fail(b, "InsufficientBytes")
  ELSE [b EXCEPT !.bytes = Patch(@, offset, BytesBE(value.v, nbytes))]

writeUInt8(b, offset, value) == writeUInt(b, offset, value, 1)
writeUInt16BE(b, offset, value) == writeUInt(b, offset, value, 2)
writeUInt24BE(b, offset, value) == writeUInt(b, offset, value, 3)
writeUInt32BE(b, offset, value) == writeUInt(b, offset, value, 4)

\* A read gives [err, value].
readUInt(bytes, offset, nbytes) ==
  IF offset + nbytes > Len(bytes)
  THEN [err |-> "InsufficientBytes", value |-> JUndef]
  ELSE [err |-> "none", value |-> JNum(FromBytesBE(SubSeq(bytes, offset + 1, offset + nbytes)))]

readUInt8(bytes, offset) == readUInt(bytes, offset, 1)
readUInt16BE(bytes, offset) == readUInt(bytes, offset, 2)
readUInt24BE(bytes, offset) == readUInt(bytes, offset, 3)
readUInt32BE(bytes, offset) == readUInt(bytes, offset, 4)

\* Each byte becomes the character with that code.
decode(bytes) == JStr(bytes)

----------------------------------------------------------------------------
\* The registry

\* A field of a box: ['key', Type, defaultValue]
F(key, Type, defaultValue) == [key |-> key, Type |-> Type, defaultValue |-> defaultValue]

\* Four-character box types, as the character codes of the string.
T ==
  "ftyp" :> <<102, 116, 121, 112>>
  @@ "moov" :> <<109, 111, 111, 118>>
  @@ "mdat" :> <<109, 100, 97, 116>>
  @@ "mvhd" :> <<109, 118, 104, 100>>
  @@ "trak" :> <<116, 114, 97, 107>>
  @@ "tkhd" :> <<116, 107, 104, 100>>
  @@ "tref" :> <<116, 114, 101, 102>>
  @@ "mdia" :> <<109, 100, 105, 97>>
  @@ "mdhd" :> <<109, 100, 104, 100>>
  @@ "hdlr" :> <<104, 100, 108, 114>>
  @@ "minf" :> <<109, 105, 110, 102>>
  @@ "vmhd" :> <<118, 109, 104, 100>>
  @@ "smhd" :> <<115, 109, 104, 100>>
  @@ "dinf" :> <<100, 105, 110, 102>>
  @@ "dref" :> <<100, 114, 101, 102>>
  @@ "url " :> <<117, 114, 108, 32>>
  @@ "stbl" :> <<115, 116, 98, 108>>
  @@ "stts" :> <<115, 116, 116, 115>>
  @@ "stsd" :> <<115, 116, 115, 100>>
  @@ "avc1" :> <<97, 118, 99, 49>>
  @@ "avcC" :> <<97, 118, 99, 67>>
  @@ "mp4a" :> <<109, 112, 52, 97>>
  @@ "esds" :> <<101, 115, 100, 115>>
  @@ "stsz" :> <<115, 116, 115, 122>>
  @@ "stsc" :> <<115, 116, 115, 99>>
  @@ "stco" :> <<115, 116, 99, 111>>
  @@ "stss" :> <<115, 116, 115, 115>>
  @@ "edts" :> <<101, 100, 116, 115>>
  @@ "elst" :> <<101, 108, 115, 116>>
  @@ "mvex" :> <<109, 118, 101, 120>>
  @@ "mehd" :> <<109, 101, 104, 100>>
  @@ "trex" :> <<116, 114, 101, 120>>
  @@ "moof" :> <<109, 111, 111, 102>>
  @@ "mfhd" :> <<109, 102, 104, 100>>
  @@ "traf" :> <<116, 114, 97, 102>>
  @@ "tfhd" :> <<116, 102, 104, 100>>
  @@ "tfdt" :> <<116, 102, 100, 116>>
  @@ "trun" :> <<116, 114, 117, 110>>
  @@ "...." :> <<46, 46, 46, 46>>
  @@ "file" :> <<102, 105, 108, 101>>
  @@ "free" :> <<102, 114, 101, 101>>  \* not in the registry
  @@ "uuid" :> <<117, 117, 105, 100>>  \* not in the registry

BOXSPEC ==
  T["ftyp"] :> [container |-> T["file"], box |-> "Box", is_container |-> TRUE,
    has_body |-> TRUE, config |-> NoConfig,
    body |-> <<
      F("major_brand", "CharArray", JStr(<<105, 115, 111, 109>>)),  \* 'isom'
      F("minor_version", "UInt32BE", JNum(N(0))),
      F("compatible_brands", "CharArray", JStr(<<109, 112, 52, 49>>))  \* 'mp41'
    >>]
  @@
  T["moov"] :> [container |-> T["file"], box |-> "Box", is_container |-> TRUE,
    has_body |-> FALSE, config |-> NoConfig,
    body |-> <<>>]
  @@
  T["mdat"] :> [container |-> T["file"], box |-> "Box", is_container |-> FALSE,
    has_body |-> TRUE, config |-> NoConfig,
    body |-> <<>>]
  @@
  T["mvhd"] :> [container |-> T["moov"], box |-> "FullBox", is_container |-> FALSE,
    has_body |-> TRUE, config |-> NoConfig,
    body |-> <<
      F("creation_time", "UInt32BE", JNum(N(0))),
      F("modification_time", "UInt32BE", JNum(N(0))),
      F("timescale", "UInt32BE", JNum(N(1000))),
      F("duration", "UInt32BE", JNum(N32(65535, 65535))),
      F("rate", "UInt32BE", JNum(N(65536))),
      F("volume", "UInt16BE", JNum(N(256))),
      F("reserved", "Empty", JNum(N(10))),
      F("matrix", "UInt32BEArray", JRef("mvhd.matrix")),
      F("pre_defined", "Empty", JNum(N(24))),
      F("next_track_ID", "UInt32BE", JNum(N32(65535, 65535)))
    >>]
  @@
  T["trak"] :> [container |-> T["moov"], box |-> "Box", is_container |-> TRUE,
    has_body |-> FALSE, config |-> NoConfig,
    body |-> <<>>]
  @@
  T["tkhd"] :> [container |-> T["trak"], box |-> "FullBox", is_container |-> FALSE,
    has_body |-> TRUE, config |-> ("flags" :> JNum(N(3))),
    body |-> <<
      F("creation_time", "UInt32BE", JNum(N(0))),
      F("modification_time", "UInt32BE", JNum(N(0))),
      F("track_ID", "UInt32BE", JNum(N(1))),
      F("reserved", "Empty", JNum(N(4))),
      F("duration", "UInt32BE", JNum(N(0))),
      F("reserved2", "Empty", JNum(N(8))),
      F("layer", "UInt16BE", JNum(N(0))),
      F("alternate_group", "UInt16BE", JNum(N(0))),
      F("volume", "UInt16BE", JNum(N(256))),
      F("reserved3", "Empty", JNum(N(2))),
      F("matrix", "UInt32BEArray", JRef("tkhd.matrix")),
      F("width", "UInt32BE", JNum(N(0))),
      F("height", "UInt32BE", JNum(N(0)))
    >>]
  @@
  T["tref"] :> [container |-> T["trak"], box |-> "Box", is_container |-> FALSE,
    has_body |-> FALSE, config |-> NoConfig,
    body |-> <<>>]
  @@
  T["mdia"] :> [container |-> T["trak"], box |-> "Box", is_container |-> TRUE,
    has_body |-> FALSE, config |-> NoConfig,
    body |-> <<>>]
  @@
  T["mdhd"] :> [container |-> T["mdia"], box |-> "FullBox", is_container |-> FALSE,
    has_body |-> TRUE, config |-> NoConfig,
    body |-> <<
      F("creation_time", "UInt32BE", JNum(N(0))),
      F("modification_time", "UInt32BE", JNum(N(0))),
      F("timescale", "UInt32BE", JNum(N(1000))),
      F("duration", "UInt32BE", JNum(N32(65535, 65535))),
      F("language", "UInt16BE", JNum(N(0))),
      F("pre_defined", "UInt16BE", JNum(N(0)))
    >>]
  @@
  T["hdlr"] :> [container |-> T["mdia"], box |-> "FullBox", is_container |-> FALSE,
    has_body |-> TRUE, config |-> NoConfig,
    body |-> <<
      F("predefined", "UInt32BE", JNum(N(0))),
      F("handler_type", "CharArray", JStr(<<118, 105, 100, 101>>)),  \* 'vide'
      F("reserved", "Empty", JNum(N(12))),
      F("name", "CharArray", JStr(<<86, 105, 100, 101, 111, 72, 97, 110, 100, 108, 101, 114, 0>>))  \* 'VideoHandler\0'
    >>]
  @@
  T["minf"] :> [container |-> T["mdia"], box |-> "Box", is_container |-> TRUE,
    has_body |-> FALSE, config |-> NoConfig,
    body |-> <<>>]
  @@
  T["vmhd"] :> [container |-> T["minf"], box |-> "FullBox", is_container |-> FALSE,
    has_body |-> TRUE, config |-> ("flags" :> JNum(N(1))),
    body |-> <<
      F("graphicsmode", "UInt16BE", JNum(N(0))),
      F("opcolor", "UInt16BEArray", JRef("vmhd.opcolor"))
    >>]
  @@
  T["smhd"] :> [container |-> T["minf"], box |-> "FullBox", is_container |-> FALSE,
    has_body |-> TRUE, config |-> NoConfig,
    body |-> <<
      F("balance", "UInt16BE", JNum(N(0))),
      F("reserved", "UInt16BE", JUndef)
    >>]
  @@
  T["dinf"] :> [container |-> T["minf"], box |-> "Box", is_container |-> TRUE,
    has_body |-> FALSE, config |-> NoConfig,
    body |-> <<>>]
  @@
  T["dref"] :> [container |-> T["dinf"], box |-> "FullBox", is_container |-> TRUE,
    has_body |-> TRUE, config |-> NoConfig,
    body |-> <<
      F("entry_count", "UInt32BE", JNum(N(0)))
    >>]
  @@
  T["url "] :> [container |-> T["dref"], box |-> "FullBox", is_container |-> FALSE,
    has_body |-> TRUE, config |-> ("flags" :> JNum(N(1))),
    body |-> <<>>]
  @@
  T["stbl"] :> [container |-> T["minf"], box |-> "Box", is_container |-> TRUE,
    has_body |-> FALSE, config |-> NoConfig,
    body |-> <<>>]
  @@
  T["stts"] :> [container |-> T["stbl"], box |-> "FullBox", is_container |-> FALSE,
    has_body |-> TRUE, config |-> NoConfig,
    body |-> <<
      F("entry_count", "UInt32BE", JNum(N(0)))
    >>]
  @@
  T["stsd"] :> [container |-> T["stbl"], box |-> "FullBox", is_container |-> TRUE,
    has_body |-> TRUE, config |-> NoConfig,
    body |-> <<
      F("entry_count", "UInt32BE", JNum(N(1)))
    >>]
  @@
  T["avc1"] :> [container |-> T["stsd"], box |-> "Box", is_container |-> TRUE,
    has_body |-> TRUE, config |-> NoConfig,
    body |-> <<
      F("reserved", "Empty", JNum(N(6))),
      F("data_reference_index", "UInt16BE", JNum(N(1))),
      F("pre_defined", "UInt16BE", JNum(N(0))),
      F("reserved2", "Empty", JNum(N(2))),
      F("pre_defined2", "UInt32BEArray", JRef("avc1.pre_defined2")),
      F("width", "UInt16BE", JNum(N(1920))),
      F("height", "UInt16BE", JNum(N(1080))),
      F("horizresolution", "UInt32BE", JNum(N(4718592))),
      F("vertresolution", "UInt32BE", JNum(N(4718592))),
      F("reserved3", "UInt32BE", JNum(N(0))),
      F("frame_count", "UInt16BE", JNum(N(1))),
      F("compressorname", "UInt8Array", JRef("avc1.compressorname")),
      F("depth", "UInt16BE", JNum(N(24))),
      F("pre_defined3", "UInt16BE", JNum(N(65535)))
    >>]
  @@
  T["avcC"] :> [container |-> T["avc1"], box |-> "Box", is_container |-> FALSE,
    has_body |-> TRUE, config |-> NoConfig,
    body |-> <<
      F("configurationVersion", "UInt8", JNum(N(1))),
      F("AVCProfileIndication", "UInt8", JNum(N(77))),
      F("profile_compatibility", "UInt8", JNum(N(0))),
      F("AVCLevelIndication", "UInt8", JNum(N(41))),
      F("lengthSizeMinusOne", "UInt8", JNum(N(255))),
      F("sequenceParameterSets", "ParameterSetArray_e0", JRef("avcC.sequenceParameterSets")),
      F("pictureParameterSets", "ParameterSetArray_00", JRef("avcC.pictureParameterSets"))
    >>]
  @@
  T["mp4a"] :> [container |-> T["stsd"], box |-> "Box", is_container |-> TRUE,
    has_body |-> TRUE, config |-> NoConfig,
    body |-> <<
      F("reserved", "Empty", JNum(N(6))),
      F("data_reference_index", "UInt16BE", JNum(N(1))),
      F("reserved2", "UInt32BEArray", JRef("mp4a.reserved2")),
      F("channelcount", "UInt16BE", JNum(N(2))),
      F("samplesize", "UInt16BE", JNum(N(16))),
      F("pre_defined", "UInt16BE", JNum(N(0))),
      F("reserved3", "UInt16BE", JNum(N(0))),
      F("samplerate", "UInt32BE", JNum(N(0)))
    >>]
  @@
  T["esds"] :> [container |-> T["mp4a"], box |-> "FullBox", is_container |-> FALSE,
    has_body |-> TRUE, config |-> NoConfig,
    body |-> <<
      F("ES_DescrTag", "UInt8", JNum(N(3))),
      F("ES_DescrLength", "UInt8", JNum(N(25))),
      F("ES_ID", "UInt16BE", JNum(N(1))),
      F("flagsAndStreamPriority", "UInt8", JNum(N(0))),
      F("DecoderConfigDescrTag", "UInt8", JNum(N(4))),
      F("DecoderConfigDescrLength", "UInt8", JNum(N(15))),
      F("objectProfileIndication", "UInt8", JNum(N(64))),
      F("streamTypeUpstreamReserved", "UInt8", JNum(N(21))),
      F("bufferSizeDB", "UInt8Array", JRef("esds.bufferSizeDB")),
      F("maxBitRate", "UInt32BE", JNum(N(0))),
      F("avgBitRate", "UInt32BE", JNum(N(0))),
      F("DecSpecificInfoShortTag", "UInt8", JNum(N(5))),
      F("DecSpecificInfoShortLength", "UInt8", JNum(N(0))),
      F("audioConfigBytes", "UInt8Array", JRef("esds.audioConfigBytes")),
      F("SLConfigDescrTag", "UInt8", JNum(N(6))),
      F("SLConfigDescrLength", "UInt8", JNum(N(1))),
      F("SLConfigDescrPredefined", "UInt8", JNum(N(2)))
    >>]
  @@
  T["stsz"] :> [container |-> T["stbl"], box |-> "FullBox", is_container |-> FALSE,
    has_body |-> TRUE, config |-> NoConfig,
    body |-> <<
      F("sample_size", "UInt32BE", JNum(N(0))),
      F("sample_count", "UInt32BE", JNum(N(0)))
    >>]
  @@
  T["stsc"] :> [container |-> T["stbl"], box |-> "FullBox", is_container |-> FALSE,
    has_body |-> TRUE, config |-> NoConfig,
    body |-> <<
      F("entry_count", "UInt32BE", JNum(N(0)))
    >>]
  @@
  T["stco"] :> [container |-> T["stbl"], box |-> "FullBox", is_container |-> FALSE,
    has_body |-> TRUE, config |-> NoConfig,
    body |-> <<
      F("entry_count", "UInt32BE", JNum(N(0)))
    >>]
  @@
  T["stss"] :> [container |-> T["stbl"], box |-> "FullBox", is_container |-> FALSE,
    has_body |-> TRUE, config |-> NoConfig,
    body |-> <<
      F("entry_count", "UInt32BE", JNum(N(0)))
    >>]
  @@
  T["edts"] :> [container |-> T["trak"], box |-> "Box", is_container |-> TRUE,
    has_body |-> FALSE, config |-> NoConfig,
    body |-> <<>>]
  @@
  T["elst"] :> [container |-> T["edts"], box |-> "FullBox", is_container |-> FALSE,
    has_body |-> TRUE, config |-> NoConfig,
    body |-> <<
      F("entry_count", "UInt32BE", JNum(N(1))),
      F("segment_duration", "UInt32BE", JNum(N(0))),
      F("media_time", "UInt32BE", JNum(N32(65535, 65535))),
      F("media_rate_integer", "UInt16BE", JNum(N(1))),
      F("media_rate_fraction", "UInt16BE", JNum(N(0)))
    >>]
  @@
  T["mvex"] :> [container |-> T["moov"], box |-> "Box", is_container |-> TRUE,
    has_body |-> FALSE, config |-> NoConfig,
    body |-> <<>>]
  @@
  T["mehd"] :> [container |-> T["mvex"], box |-> "FullBox", is_container |-> FALSE,
    has_body |-> TRUE, config |-> NoConfig,
    body |-> <<
      F("fragment_duration", "UInt32BE", JNum(N(0)))
    >>]
  @@
  T["trex"] :> [container |-> T["mvex"], box |-> "FullBox", is_container |-> FALSE,
    has_body |-> TRUE, config |-> NoConfig,
    body |-> <<
      F("track_ID", "UInt32BE", JNum(N(1))),
      F("default_sample_description_index", "UInt32BE", JNum(N(1))),
      F("default_sample_duration", "UInt32BE", JNum(N(0))),
      F("default_sample_size", "UInt32BE", JNum(N(0))),
      F("default_sample_flags", "UInt32BE", JNum(N(0)))
    >>]
  @@
  T["moof"] :> [container |-> T["file"], box |-> "Box", is_container |-> FALSE,
    has_body |-> FALSE, config |-> NoConfig,
    body |-> <<>>]
  @@
  T["mfhd"] :> [container |-> T["moof"], box |-> "FullBox", is_container |-> FALSE,
    has_body |-> TRUE, config |-> NoConfig,
    body |-> <<
      F("sequence_number", "UInt32BE", JNum(N(0)))
    >>]
  @@
  T["traf"] :> [container |-> T["moof"], box |-> "Box", is_container |-> TRUE,
    has_body |-> FALSE, config |-> NoConfig,
    body |-> <<>>]
  @@
  T["tfhd"] :> [container |-> T["traf"], box |-> "FullBox", is_container |-> FALSE,
    has_body |-> TRUE, config |-> ("flags" :> JNum(N(32))),
    body |-> <<
      F("track_ID", "UInt32BE", JNum(N(1))),
      F("default_sample_flags", "UInt32BE", JNum(N(0)))
    >>]
  @@
  T["tfdt"] :> [container |-> T["traf"], box |-> "FullBox", is_container |-> FALSE,
    has_body |-> TRUE, config |-> ("version" :> JNum(N(1))),
    body |-> <<
      F("baseMediaDecodeTime", "UInt64BE", JNum(N(0)))
    >>]
  @@
  T["trun"] :> [container |-> T["traf"], box |-> "FullBox", is_container |-> FALSE,
    has_body |-> TRUE, config |-> ("flags" :> JNum(N(773))),
    body |-> <<
      F("sample_count", "UInt32BE", JNum(N(1))),
      F("data_offset", "UInt32BE", JNum(N(0))),
      F("first_sample_flags", "UInt32BE", JNum(N(0))),
      F("sample_duration", "UInt32BE", JNum(N(0))),
      F("sample_size", "UInt32BE", JNum(N(0)))
    >>]
  @@
  T["...."] :> [container |-> <<>>, box |-> "Box", is_container |-> FALSE,
    has_body |-> TRUE, config |-> NoConfig,
    body |-> <<>>]
  @@
  T["file"] :> [container |-> <<>>, box |-> "None", is_container |-> TRUE,
    has_body |-> FALSE, config |-> NoConfig,
    body |-> <<>>]

\* The array objects the schema holds as default values: one object each, handed
\* by reference to every element constructed with the default.
BOXSPEC_arrays ==
  "mvhd.matrix" :> <<N(65536), N(0), N(0), N(0), N(65536), N(0), N(0), N(0), N(1073741824)>>
  @@
  "tkhd.matrix" :> <<N(65536), N(0), N(0), N(0), N(65536), N(0), N(0), N(0), N(1073741824)>>
  @@
  "vmhd.opcolor" :> <<N(0), N(0), N(0)>>
  @@
  "avc1.pre_defined2" :> <<N(0), N(0), N(0)>>
  @@
  "avc1.compressorname" :> <<N(0), N(0), N(0), N(0), N(0), N(0), N(0), N(0), N(0), N(0), N(0), N(0), N(0), N(0), N(0), N(0), N(0), N(0), N(0), N(0), N(0), N(0), N(0), N(0), N(0), N(0), N(0), N(0), N(0), N(0), N(0), N(0)>>
  @@
  "avcC.sequenceParameterSets" :> <<>>
  @@
  "avcC.pictureParameterSets" :> <<>>
  @@
  "mp4a.reserved2" :> <<N(0), N(0)>>
  @@
  "esds.bufferSizeDB" :> <<N(0), N(0), N(0)>>
  @@
  "esds.audioConfigBytes" :> <<>>

----------------------------------------------------------------------------
\* Elements: [kind, value, byteLength].  A child box held by a container is
\* the element [kind |-> "Box", ref |-> id]: its byteLength is the box's own.

Empty(size) ==
  [kind |-> "Empty", value |-> JUndef,
   byteLength |-> IF size.t = "undef" THEN 0 ELSE ToInt(size.v)]

Empty_copy(e, b, offset) ==
  IF b.err # "none" THEN b
  ELSE [b EXCEPT !.bytes = Patch(@, offset, [i \in 1..e.byteLength |-> 0])]

CharArray(s) == [kind |-> "CharArray", value |-> s, byteLength |-> Len(s.v)]

\* buffer[offset + i] = value.charCodeAt(i): a store outside the buffer is
\* dropped, a missing character (NaN) is stored as 0.
CharArray_copy(e, b, offset) ==
  IF b.err # "none" THEN b
  ELSE IF e.value.t # "str" THEN Fail(b, "TypeError")
  ELSE [b EXCEPT !.bytes =
          Patch(@, offset, [i \in 1..e.byteLength |->
                              IF i <= Len(e.value.v) THEN e.value.v[i] % 256 ELSE 0])]

CharArray_load(e, bytes, offset) ==
  [e EXCEPT !.value = decode(subarray(bytes, offset, offset + e.byteLength))]

Scalar(kind, scalar, nbytes) ==
  [kind |-> kind, value |-> IF scalar.t = "undef" THEN JNum(N(0)) ELSE scalar,
   byteLength |-> nbytes]

UInt8(scalar) == Scalar("UInt8", scalar, 1)
UInt16BE(scalar) == Scalar("UInt16BE", scalar, 2)
UInt24BE(scalar) == Scalar("UInt24BE", scalar, 3)
UInt32BE(scalar) == Scalar("UInt32BE", scalar, 4)
UInt64BE(scalar) == Scalar("UInt64BE", scalar, 8)

\* high = (value / UINT32_RANGE) | 0; low = value - high * UINT32_RANGE.
\* Values stay below 2^53; from 2^63 on, | 0 makes high negative.
UInt64BE_copy(e, b, offset) ==
  IF e.value.t # "num" \/ e.value.v[1] >= 32768 THEN
    IF b.err # "none" THEN b ELSE Fail(b, "ValueOutOfRange")
  ELSE LET high == JNum(<<0, 0, e.value.v[1], e.value.v[2]>>)
           low == JNum(<<0, 0, e.value.v[3], e.value.v[4]>>)
       IN  writeUInt32BE(writeUInt32BE(b, offset, high), offset + 4, low)

\* value = high * UINT32_RANGE + low
UInt64BE_load(e, bytes, offset) ==
  With(readUInt32BE(bytes, offset), LAMBDA high :
    With(readUInt32BE(bytes, offset + 4), LAMBDA low :
      IF high.err # "none" THEN [element |-> e, err |-> high.err]
      ELSE IF low.err # "none" THEN [element |-> e, err |-> low.err]
      ELSE [element |-> [e EXCEPT !.value =
                           JNum(<<high.value.v[3], high.value.v[4],
                                  low.value.v[3], low.value.v[4]>>)],
            err |-> "none"]))

ScalarWidth(kind) ==
  CASE kind = "UInt8" -> 1 [] kind = "UInt16BE" -> 2 [] kind = "UInt24BE" -> 3
    [] kind = "UInt32BE" -> 4

Scalar_copy(e, b, offset) == writeUInt(b, offset, e.value, ScalarWidth(e.kind))

Scalar_load(e, bytes, offset) ==
  With(readUInt(bytes, offset, ScalarWidth(e.kind)), LAMBDA r :
    IF r.err # "none" THEN [element |-> e, err |-> r.err]
    ELSE [element |-> [e EXCEPT !.value = r.value], err |-> "none"])

\* The array elements keep the array object they were given: the byteLength is
\* taken from it at construction, copy and load run over its current length.
ArrayWidth(kind) ==
  CASE kind = "UInt8Array" -> 1 [] kind = "UInt16BEArray" -> 2
    [] kind = "UInt32BEArray" -> 4

ArrayElement(kind, sa, array) ==
  [kind |-> kind, value |-> array,
   byteLength |-> Len(Deref(sa, array).v) * ArrayWidth(kind)]

UInt8Array(sa, array) == ArrayElement("UInt8Array", sa, array)
UInt16BEArray(sa, array) == ArrayElement("UInt16BEArray", sa, array)
UInt32BEArray(sa, array) == ArrayElement("UInt32BEArray", sa, array)

\* for (i = 0; i < value.length; ++i) write(buffer, offset + width * i, value[i])
RECURSIVE copyArray(_, _, _, _, _)
copyArray(b, offset, array, nbytes, i) ==
  IF i > Len(array) \/ b.err # "none" THEN b
  ELSE copyArray(writeUInt(b, offset + nbytes * (i - 1), JNum(array[i]), nbytes),
                 offset, array, nbytes, i + 1)

Array_copy(sa, e, b, offset) ==
  copyArray(b, offset, Deref(sa, e.value).v, ArrayWidth(e.kind), 1)

\* for (i = 0; i < value.length; ++i) value[i] = read(buffer, offset + width * i):
\* the array object is overwritten in place, up to the read that fails.
RECURSIVE loadArray(_, _, _, _, _)
loadArray(array, bytes, offset, nbytes, i) ==
  IF i > Len(array) THEN [array |-> array, err |-> "none"]
  ELSE With(readUInt(bytes, offset + nbytes * (i - 1), nbytes), LAMBDA r :
         IF r.err # "none" THEN [array |-> array, err |-> r.err]
         ELSE loadArray([array EXCEPT ![i] = r.value.v], bytes, offset, nbytes, i + 1))

\* Gives [element, sa, err]: the array written is the element's own, or the
\* registry's when the element was constructed with the default.
Array_load(sa, e, bytes, offset) ==
  With(loadArray(Deref(sa, e.value).v, bytes, offset, ArrayWidth(e.kind), 1), LAMBDA r :
    IF e.value.t = "ref"
    THEN [element |-> e, sa |-> [sa EXCEPT ![e.value.v] = r.array], err |-> r.err]
    ELSE [element |-> [e EXCEPT !.value = JArr(r.array)], sa |-> sa, err |-> r.err])

ByteArray(array) == [kind |-> "ByteArray", value |-> array, byteLength |-> Len(array.v)]

\* buffer.set(value, offset) throws when the value does not fit.
ByteArray_copy(e, b, offset) ==
  IF b.err # "none" THEN b
  ELSE IF offset + Len(e.value.v) > Len(b.bytes) THEN Fail(b, "RangeError")
  ELSE [b EXCEPT !.bytes = Patch(@, offset, [i \in 1..Len(e.value.v) |-> ToInt(e.value.v[i])])]

\* The elements of a parameter set array: the count byte, then a length and
\* the bytes of every parameter set.
RECURSIVE parameterSetElements(_, _)
parameterSetElements(array, i) ==
  IF i > Len(array) THEN <<>>
  ELSE <<UInt16BE(JNum(N(Len(array[i])))), ArrayElement("UInt8Array", <<>>, JArr(array[i]))>>
       \o parameterSetElements(array, i + 1)

RECURSIVE SumLengths(_, _)
SumLengths(elements, i) ==
  IF i > Len(elements) THEN 0 ELSE elements[i].byteLength + SumLengths(elements, i + 1)

createParameterSetArrayClass(sizeMask, sa, array) ==
  With(Deref(sa, array).v, LAMBDA sets :
    With(<<UInt8(JNum(N(BitOr(sizeMask, Len(sets)))))>> \o parameterSetElements(sets, 1),
         LAMBDA value :
      [kind |-> "ParameterSetArray", value |-> [t |-> "elements", v |-> value],
       byteLength |-> SumLengths(value, 1)]))

RECURSIVE ParameterSetArray_copy(_, _, _, _)
ParameterSetArray_copy(elements, b, offset, k) ==
  IF k > Len(elements) \/ b.err # "none" THEN b
  ELSE LET element == elements[k]
           b1 == IF element.kind = "UInt8Array"
                 THEN copyArray(b, offset, element.value.v, 1, 1)
                 ELSE Scalar_copy(element, b, offset)
       IN  ParameterSetArray_copy(elements, b1, offset + element.byteLength, k + 1)

\* new Type(value)
NewElement(Type, sa, value) ==
  CASE Type = "Empty" -> Empty(value)
    [] Type = "CharArray" -> CharArray(value)
    [] Type = "UInt8" -> UInt8(value)
    [] Type = "UInt16BE" -> UInt16BE(value)
    [] Type = "UInt24BE" -> UInt24BE(value)
    [] Type = "UInt32BE" -> UInt32BE(value)
    [] Type = "UInt64BE" -> UInt64BE(value)
    [] Type = "UInt8Array" -> UInt8Array(sa, value)
    [] Type = "UInt16BEArray" -> UInt16BEArray(sa, value)
    [] Type = "UInt32BEArray" -> UInt32BEArray(sa, value)
    [] Type = "ParameterSetArray_e0" -> createParameterSetArrayClass(224, sa, value)
    [] Type = "ParameterSetArray_00" -> createParameterSetArrayClass(0, sa, value)

\* element.copy(buffer, offset), for every element but a child box.
Element_copy(sa, e, b, offset) ==
  CASE e.kind = "Empty" -> Empty_copy(e, b, offset)
    [] e.kind = "CharArray" -> CharArray_copy(e, b, offset)
    [] e.kind \in {"UInt8", "UInt16BE", "UInt24BE", "UInt32BE"} -> Scalar_copy(e, b, offset)
    [] e.kind = "UInt64BE" -> UInt64BE_copy(e, b, offset)
    [] e.kind \in {"UInt8Array", "UInt16BEArray", "UInt32BEArray"} -> Array_copy(sa, e, b, offset)
    [] e.kind = "ByteArray" -> ByteArray_copy(e, b, offset)
    [] e.kind = "ParameterSetArray" -> ParameterSetArray_copy(e.value.v, b, offset, 1)

\* A load that takes one byte more than the element has.
Element_load_grown(sa, e, bytes, offset) ==
  [element |-> [e EXCEPT !.byteLength = @ + 1], sa |-> sa, err |-> "none"]

\* element.load(buffer, offset), for every element but a child box: [element, sa, err].
Element_load(sa, e, bytes, offset) ==
  CASE e.kind \in {"Empty", "ParameterSetArray"} -> [element |-> e, sa |-> sa, err |-> "none"]
    [] e.kind = "CharArray" ->
         [element |-> CharArray_load(e, bytes, offset), sa |-> sa, err |-> "none"]
    [] e.kind \in {"UInt8", "UInt16BE", "UInt24BE", "UInt32BE"} ->
         With(Scalar_load(e, bytes, offset), LAMBDA r :
           [element |-> r.element, sa |-> sa, err |-> r.err])
    [] e.kind = "UInt64BE" ->
         With(UInt64BE_load(e, bytes, offset), LAMBDA r :
           [element |-> r.element, sa |-> sa, err |-> r.err])
    [] e.kind \in {"UInt8Array", "UInt16BEArray", "UInt32BEArray"} -> Array_load(sa, e, bytes, offset)
    [] e.kind = "ByteArray" -> [element |-> e, sa |-> sa, err |-> "not implemented"]

----------------------------------------------------------------------------
\* Box: [type, config, struct, byteLength, isContainer, boxSize], where struct
\* is the Map of the fields in insertion order, each [key, offset, element].

Header_None == <<>>

Header_Box(type) ==
  <<F("size", "UInt32BE", JNum(N(0))), F("type", "CharArray", JStr(type))>>

Header_FullBox(type) ==
  Header_Box(type)
    \o <<F("version", "UInt8", JNum(N(0))), F("flags", "UInt24BE", JNum(N(0)))>>

Header(box, type) ==
  CASE box = "None" -> Header_None
    [] box = "Box" -> Header_Box(type)
    [] box = "FullBox" -> Header_FullBox(type)

Box_keys(box) == {box.struct[i].key : i \in 1..Len(box.struct)}

Box_has(box, key) == key \in Box_keys(box)

Box_index(box, key) == CHOOSE i \in 1..Len(box.struct) : box.struct[i].key = key

Box_element(box, key) == box.struct[Box_index(box, key)].element

\* get(key), for a key the box has
Box_get(box, key) == Box_element(box, key).value

\* offset(key), for a key the box has
Box_offset(box, key) == box.struct[Box_index(box, key)].offset

\* set(key, value), for a key the box has
Box_set(box, key, value) ==
  [box EXCEPT !.struct[Box_index(box, key)].element.value = value]

\* let value = defaultValue; if (this.config[key]) { value = this.config[key] }
configValue(config, key, defaultValue) ==
  IF key \in DOMAIN config /\ Truthy(config[key]) THEN config[key] ELSE defaultValue

\* The loop of the constructor over header and body: [struct, byteLength, err].
RECURSIVE initElements(_, _, _, _, _, _)
initElements(fields, config, sa, i, struct, offset) ==
  IF i > Len(fields) THEN [struct |-> struct, byteLength |-> offset, err |-> "none"]
  ELSE LET f == fields[i]
       IN  IF \E j \in 1..Len(struct) : struct[j].key = f.key
           THEN [struct |-> struct, byteLength |-> offset,
                 err |-> "Trying to add existing key"]
           ELSE With(NewElement(f.Type, sa, configValue(config, f.key, f.defaultValue)),
                     LAMBDA element :
                  initElements(fields, config, sa, i + 1,
                               Append(struct, [key |-> f.key, offset |-> offset,
                                               element |-> element]),
                               offset + element.byteLength))

\* new Box(type, config), for a registered type.
Box_new(sa, type, config) ==
  With(BOXSPEC[type], LAMBDA spec :
    With(config @@ spec.config, LAMBDA merged :
      With(initElements(Header(spec.box, type) \o spec.body, merged, sa, 1, <<>>, 0),
           LAMBDA r :
        [box |-> [type |-> type, config |-> merged, struct |-> r.struct,
                  byteLength |-> r.byteLength, isContainer |-> FALSE, boxSize |-> 0],
         err |-> r.err])))

\* The byteLength of an element: a child box's is read from the box.
ElementLength(h, e) == IF e.kind = "Box" THEN h[e.ref].byteLength ELSE e.byteLength

\* add(key, element) on heap[id]: [h, err].
Box_add(h, id, key, element) ==
  IF Box_has(h[id], key) THEN [h |-> h, err |-> "Trying to add existing key"]
  ELSE [h |-> [h EXCEPT ![id].struct =
                   Append(@, [key |-> key, offset |-> h[id].byteLength, element |-> element]),
                 ![id].byteLength = @ + ElementLength(h, element)],
        err |-> "none"]

\* append(...boxes) on heap[id], from the i-th box on: [h, err].
RECURSIVE Container_append(_, _, _, _)
Container_append(h, id, boxes, i) ==
  IF i > Len(boxes) THEN [h |-> h, err |-> "none"]
  ELSE With(Box_add([h EXCEPT ![id].boxSize = @ + 1], id,
                    "box_" \o ToString(h[id].boxSize), [kind |-> "Box", ref |-> boxes[i]]),
            LAMBDA r :
         IF r.err # "none" THEN r ELSE Container_append(r.h, id, boxes, i + 1))

\* new Container(type, config, ...boxes), for a registered type: the new
\* container is the last object of the heap returned.
Container_new(h, sa, type, config, boxes) ==
  With(Box_new(sa, type, config), LAMBDA b :
    IF b.err # "none" THEN [h |-> h, err |-> b.err]
    ELSE Container_append(Append(h, [b.box EXCEPT !.isContainer = TRUE, !.boxSize = 0]),
                          Len(h) + 1, boxes, 1))

\* copy(buffer, offset) on heap[id]: [h, b].  The size element is set first;
\* a box with no size element throws there.
RECURSIVE Box_copy(_, _, _, _, _)
RECURSIVE copyEntries(_, _, _, _, _, _)
Box_copy(h, sa, id, b, offset) ==
  IF b.err # "none" THEN [h |-> h, b |-> b]
  ELSE IF ~Box_has(h[id], "size") THEN [h |-> h, b |-> Fail(b, "invalid key")]
  ELSE copyEntries([h EXCEPT ![id] = Box_set(@, "size", JNum(N(@.byteLength)))],
                   sa, id, 1, b, offset)

copyEntries(h, sa, id, i, b, offset) ==
  IF i > Len(h[id].struct) \/ b.err # "none" THEN [h |-> h, b |-> b]
  ELSE LET entry == h[id].struct[i]
       IN  IF entry.element.kind = "Box"
           THEN With(Box_copy(h, sa, entry.element.ref, b, offset + entry.offset),
                     LAMBDA r : copyEntries(r.h, sa, id, i + 1, r.b, offset))
           ELSE copyEntries(h, sa, id, i + 1,
                            Element_copy(sa, entry.element, b, offset + entry.offset),
                            offset)

\* buffer() on heap[id]: [h, b].
Box_buffer(h, sa, id) == Box_copy(h, sa, id, NewBuffer(h[id].byteLength), 0)

\* load(buffer, offset) on heap[id]: [h, sa, err].  What was loaded before a
\* read failed stays loaded.
RECURSIVE Box_load(_, _, _, _, _)
RECURSIVE loadEntries(_, _, _, _, _, _)
Box_load(h, sa, id, bytes, offset) == loadEntries(h, sa, id, 1, bytes, offset)

loadEntries(h, sa, id, i, bytes, offset) ==
  IF i > Len(h[id].struct) THEN [h |-> h, sa |-> sa, err |-> "none"]
  ELSE LET entry == h[id].struct[i]
       IN  IF entry.element.kind = "Box"
           THEN With(Box_load(h, sa, entry.element.ref, bytes, offset + entry.offset),
                     LAMBDA r :
                  IF r.err # "none" THEN r
                  ELSE loadEntries(r.h, r.sa, id, i + 1, bytes, offset))
           ELSE With(Element_load(sa, entry.element, bytes, offset + entry.offset),
                     LAMBDA r :
                  IF r.err # "none"
                  THEN [h |-> [h EXCEPT ![id].struct[i].element = r.element],
                        sa |-> r.sa, err |-> r.err]
                  ELSE loadEntries([h EXCEPT ![id].struct[i].element = r.element],
                                   r.sa, id, i + 1, bytes, offset))

----------------------------------------------------------------------------
\* Codec strings of the tracks parse() reports

HexDigits == <<"0", "1", "2", "3", "4", "5", "6", "7", "8", "9", "a", "b", "c", "d", "e", "f">>

\* Number.prototype.toString(radix), for a non-negative integer
RECURSIVE toString(_, _)
toString(n, radix) ==
  IF n < radix THEN HexDigits[n + 1]
  ELSE toString(n \div radix, radix) \o HexDigits[(n % radix) + 1]

\* A padStart that pads nothing: a value below 16 keeps its one digit.
padStart_unpadded(s, targetLength, padString) == s

\* String.prototype.padStart(targetLength, padString), for a one-character pad
RECURSIVE padStart(_, _, _)
padStart(s, targetLength, padString) ==
  IF Len(s) >= targetLength THEN s ELSE padStart(padString \o s, targetLength, padString)

\* box.element(key).value.toString(16).padStart(2, 0)
hexField(box, key) == padStart(toString(ToInt(Box_get(box, key).v), 16), 2, "0")

avcCTrack(box) ==
  [type |-> "video",
   codec |-> "avc1." \o hexField(box, "AVCProfileIndication")
                     \o hexField(box, "profile_compatibility")
                     \o hexField(box, "AVCLevelIndication")]

\* audioConfigBytes[0] >>> 3: undefined >>> 3 is 0.
esdsTrack(sa, box) ==
  With(Deref(sa, Box_get(box, "audioConfigBytes")).v, LAMBDA audioConfigBytes :
    With(IF Len(audioConfigBytes) = 0 THEN 0 ELSE ToInt(audioConfigBytes[1]) \div 8,
         LAMBDA objectTypeIndication :
      [type |-> "audio", codec |-> "mp4a.40." \o toString(objectTypeIndication, 10)]))

----------------------------------------------------------------------------
\* Bounds and the values the caller passes

MaxBoxes == 2      \* boxes the caller constructs
MaxMutated == 1    \* of which the first MaxMutated get fields set and added
MaxHeap == 12      \* box objects in all, those parse() constructs included
MaxChildren == 2   \* children appended to one container by the caller
MaxChunks == 2     \* top-level boxes of an input handed to parse()


\* The types the caller constructs boxes of, and the configs it passes.
BuildTypes == {T["mdat"], T["trex"], T["esds"], T["free"]}
ContainerTypes == {T["moov"], T["file"], T["free"]}

Configs(type) ==
  {NoConfig} \cup
  IF type = T["trex"] THEN {"track_ID" :> JNum(N(0)), "track_ID" :> JNum(N(2))} ELSE {}

\* The value the caller sets a field to.
SetValues(e) ==
  CASE e.kind = "CharArray" -> {JStr(T["free"])}
    [] e.kind = "UInt8Array" -> {JArr(<<N(17), N(144)>>)}
    [] OTHER -> {}

\* The fields the caller sets.
SetKeys == {"type", "bufferSizeDB", "audioConfigBytes"}

\* The element the caller adds, and the key it adds it under.
AddKeys == {"data", "box_0"}
AddElements == {ByteArray(JArr(<<N(1), N(2), N(3), N(4)>>))}

----------------------------------------------------------------------------
\* openWebSocket: the promise, the two sockets, the token request and the two
\* timers, with the callbacks of the event loop as actions.  Time is Date.now()
\* in ms since the call; a timer runs when it is due, before time goes on.

WEBSOCKET_TIMEOUT == 10007
TIMEOUT_INTERVAL == 3000

Step == 1500        \* ms the clock advances by in one step, at most
MaxTime == 13000    \* the clock stops here
ShortTimeout == 2000  \* a timeout given in the webSocketConfig

Uris == {"undefined", "invalid", "ws://host/stream"}
TokenUris == {"undefined", "http://host/token"}
Timeouts == {WEBSOCKET_TIMEOUT, ShortTimeout}

NoSocket ==
  [readyState |-> "none", onerror |-> FALSE, onopen |-> FALSE, onmessage |-> FALSE,
   received |-> 0, messages |-> FALSE]

\* new WebSocket(uri, protocol); received is when it got its last message,
\* or was made, messages whether it got one
NewSocket(onerror, onopen, onmessage) ==
  [readyState |-> "CONNECTING", onerror |-> onerror, onopen |-> onopen,
   onmessage |-> onmessage, received |-> now, messages |-> FALSE]

NoTimer == [active |-> FALSE, due |-> 0]

\* setTimeout(callback, ms) and setInterval(callback, ms)
setTimeout(ms) == [active |-> TRUE, due |-> now + ms]

NoEvents ==
  [WebSocketErrorStream |-> 0, WebSocketOpenStream |-> 0, WebSocketCloseStream |-> 0,
   WebSocketStreamTimeout |-> 0]

emitCustomEvent(ev, name) == [ev EXCEPT ![name] = @ + 1]

\* resolve(value) and reject(reason): a settled promise stays as it is.
resolve(p, value) ==
  IF p.state = "pending" THEN [state |-> "resolved", value |-> value] ELSE p

reject(p, reason) ==
  IF p.state = "pending" THEN [state |-> "rejected", value |-> reason] ELSE p

NotCalled ==
  /\ webSocketConfig = [uri |-> "undefined", tokenUri |-> "undefined", timeout |-> 0]
  /\ promise = [state |-> "none", value |-> "none"]
  /\ ws = NoSocket
  /\ ws2 = NoSocket
  /\ request = "none"
  /\ countdown = NoTimer
  /\ timeoutInterval = NoTimer
  /\ lastMessageTime = 0
  /\ now = 0
  /\ events = NoEvents

\* openWebSocket({uri, tokenUri, timeout}): an undefined uri throws, and so
\* may new WebSocket (an invalid uri), which the executor catches.
openWebSocket(uri, tokenUri, timeout) ==
  /\ promise.state = "none"
  /\ webSocketConfig' = [uri |-> uri, tokenUri |-> tokenUri, timeout |-> timeout]
  /\ IF uri = "undefined"
     THEN /\ promise' = [state |-> "rejected", value |-> "ws: internal error"]
          /\ UNCHANGED <<ws, countdown, timeoutInterval, lastMessageTime>>
     ELSE IF uri = "invalid"
     THEN /\ promise' = [state |-> "rejected", value |-> "SyntaxError"]
          /\ UNCHANGED <<ws, countdown, timeoutInterval, lastMessageTime>>
     ELSE /\ promise' = [state |-> "pending", value |-> "none"]
          /\ ws' = NewSocket(TRUE, TRUE, TRUE)
          /\ countdown' = setTimeout(timeout)
          /\ timeoutInterval' = setTimeout(TIMEOUT_INTERVAL)
          /\ lastMessageTime' = now
  /\ UNCHANGED <<ws2, request, now, events, boxVars>>

\* A timer is due.
Due(timer) == timer.active /\ timer.due <= now

\* The time the clock may advance to: no further than the next timer due.
Ahead(t, timer) == IF timer.active /\ timer.due < t THEN timer.due ELSE t

\* Time passes.
Tick ==
  /\ promise.state # "none"
  /\ now < MaxTime
  /\ ~Due(countdown) /\ ~Due(timeoutInterval)
  /\ now' = Ahead(Ahead(Ahead(now + Step, countdown), timeoutInterval), [active |-> TRUE, due |-> MaxTime])
  /\ UNCHANGED <<webSocketConfig, promise, ws, ws2, request, countdown, timeoutInterval,
                 lastMessageTime, events, boxVars>>

\* The callback of countdown
CountdownFires ==
  /\ Due(countdown)
  /\ countdown' = NoTimer
  /\ IF ws.readyState = "CONNECTING"
     THEN /\ ws' = [ws EXCEPT !.onerror = FALSE]
          /\ promise' = reject(promise, "websocket connection timed out")
     ELSE UNCHANGED <<ws, promise>>
  /\ UNCHANGED <<webSocketConfig, ws2, request, timeoutInterval, lastMessageTime, now, events, boxVars>>

\* checkTimeout, run by timeoutInterval
checkTimeout ==
  /\ Due(timeoutInterval)
  /\ IF now - lastMessageTime > TIMEOUT_INTERVAL
     THEN /\ ws' = [ws EXCEPT !.onmessage = FALSE]
          /\ timeoutInterval' = NoTimer
          /\ events' = emitCustomEvent(events, "WebSocketStreamTimeout")
     ELSE /\ timeoutInterval' = [timeoutInterval EXCEPT !.due = @ + TIMEOUT_INTERVAL]
          /\ UNCHANGED <<ws, events>>
  /\ UNCHANGED <<webSocketConfig, promise, ws2, request, countdown, lastMessageTime, now, boxVars>>

\* ws.onopen
ws_onopen ==
  /\ ws.readyState = "CONNECTING"
  /\ ws' = [ws EXCEPT !.readyState = "OPEN"]
  /\ countdown' = NoTimer
  /\ events' = emitCustomEvent(events, "WebSocketOpenStream")
  /\ promise' = resolve(promise, "ws")
  /\ UNCHANGED <<webSocketConfig, ws2, request, timeoutInterval, lastMessageTime, now, boxVars>>

\* The first socket fails: ws.onerror, unless the countdown took the handler
\* away, then the listener of close.  request.send() may throw (sendThrows).
ws_onerror(sendThrows) ==
  /\ ws.readyState \in {"CONNECTING", "OPEN"}
  /\ ws' = [ws EXCEPT !.readyState = "CLOSED"]
  /\ IF ws.onerror
     THEN /\ countdown' = NoTimer
          /\ events' = emitCustomEvent(emitCustomEvent(events, "WebSocketErrorStream"),
                                       "WebSocketCloseStream")
          /\ promise' = IF webSocketConfig.tokenUri = "undefined" \/ sendThrows
                        THEN reject(promise, "originalError") ELSE promise
          /\ request' = IF sendThrows THEN "failed" ELSE "sent"
     ELSE /\ events' = emitCustomEvent(events, "WebSocketCloseStream")
          /\ UNCHANGED <<countdown, promise, request>>
  /\ UNCHANGED <<webSocketConfig, ws2, timeoutInterval, lastMessageTime, now, boxVars>>

\* The first socket closes: the listener of close
ws_onclose ==
  /\ ws.readyState = "OPEN"
  /\ ws' = [ws EXCEPT !.readyState = "CLOSED"]
  /\ events' = emitCustomEvent(events, "WebSocketCloseStream")
  /\ UNCHANGED <<webSocketConfig, promise, ws2, request, countdown, timeoutInterval,
                 lastMessageTime, now, boxVars>>

\* A message on the first socket: messageHandler, while it is subscribed
messageHandler ==
  /\ ws.readyState = "OPEN"
  /\ ws' = [ws EXCEPT !.received = now, !.messages = TRUE]
  /\ lastMessageTime' = IF ws.onmessage THEN now ELSE lastMessageTime
  /\ UNCHANGED <<webSocketConfig, promise, ws2, request, countdown, timeoutInterval, now, events,
                 boxVars>>

\* The listener of load of the token request
onLoadToken(status) ==
  /\ request = "sent"
  /\ request' = "load"
  /\ IF status >= 400
     THEN promise' = reject(promise, "originalError") /\ UNCHANGED ws2
     ELSE ws2' = NewSocket(TRUE, TRUE, FALSE) /\ UNCHANGED promise
  /\ UNCHANGED <<webSocketConfig, ws, countdown, timeoutInterval, lastMessageTime, now, events,
                 boxVars>>

\* The listeners of error and of abort of the token request
request_onerror ==
  /\ request = "sent"
  /\ request' = "error"
  /\ promise' = reject(promise, "err")
  /\ UNCHANGED <<webSocketConfig, ws, ws2, countdown, timeoutInterval, lastMessageTime, now, events,
                 boxVars>>

request_onabort ==
  /\ request = "sent"
  /\ request' = "abort"
  /\ promise' = reject(promise, "originalError")
  /\ UNCHANGED <<webSocketConfig, ws, ws2, countdown, timeoutInterval, lastMessageTime, now, events,
                 boxVars>>

\* ws2.onopen
ws2_onopen ==
  /\ ws2.readyState = "CONNECTING"
  /\ ws2' = [ws2 EXCEPT !.readyState = "OPEN"]
  /\ promise' = resolve(promise, "ws2")
  /\ UNCHANGED <<webSocketConfig, ws, request, countdown, timeoutInterval, lastMessageTime, now,
                 events, boxVars>>

\* ws2.onerror
ws2_onerror ==
  /\ ws2.readyState \in {"CONNECTING", "OPEN"}
  /\ ws2' = [ws2 EXCEPT !.readyState = "CLOSED"]
  /\ promise' = reject(promise, "err")
  /\ UNCHANGED <<webSocketConfig, ws, request, countdown, timeoutInterval, lastMessageTime, now,
                 events, boxVars>>

\* A message on the second socket: nothing listens.
ws2_message ==
  /\ ws2.readyState = "OPEN"
  /\ ws2' = [ws2 EXCEPT !.received = now, !.messages = TRUE]
  /\ UNCHANGED <<webSocketConfig, promise, ws, request, countdown, timeoutInterval, lastMessageTime,
                 now, events, boxVars>>

NextWs ==
  \/ \E uri \in Uris, tokenUri \in TokenUris, timeout \in Timeouts :
       openWebSocket(uri, tokenUri, timeout)
  \/ Tick
  \/ CountdownFires
  \/ checkTimeout
  \/ ws_onopen
  \/ \E sendThrows \in BOOLEAN : ws_onerror(sendThrows)
  \/ ws_onclose
  \/ messageHandler
  \/ \E status \in {200, 401} : onLoadToken(status)
  \/ request_onerror
  \/ request_onabort
  \/ ws2_onopen
  \/ ws2_onerror
  \/ ws2_message

----------------------------------------------------------------------------
\* The state machine

Last(op, id, err, roundTrip) == [op |-> op, id |-> id, err |-> err, roundTrip |-> roundTrip]

NoOut == [id |-> 0, bytes |-> <<>>, err |-> "none"]

NoInput ==
  [names |-> <<>>, bytes |-> <<>>, kinds |-> <<>>, wellFormed |-> FALSE, avc |-> <<>>, audio |-> 0]

Frame(self, data) == [self |-> self, data |-> data, tracks |-> <<>>, box |-> 0]

Init ==
  /\ heap = <<>>
  /\ specArrays = BOXSPEC_arrays
  /\ out = NoOut
  /\ pc = "build"
  /\ stack = <<>>
  /\ result = <<>>
  /\ input = NoInput
  /\ last = Last("none", 0, "none", FALSE)
  /\ NotCalled

\* The boxes reachable from heap[id] through its child elements, id included.
RECURSIVE Reach(_, _)
Reach(h, id) ==
  {id} \cup UNION {Reach(h, h[id].struct[i].element.ref) :
                     i \in {j \in 1..Len(h[id].struct) : h[id].struct[j].element.kind = "Box"}}

\* new Box(type, config)
NewBox(type, config) ==
  /\ pc = "build"
  /\ Len(heap) < MaxBoxes
  /\ IF type \notin DOMAIN BOXSPEC
     THEN /\ last' = Last("new", 0, "unknown box type", FALSE)
          /\ UNCHANGED heap
     ELSE With(Box_new(specArrays, type, config), LAMBDA r :
            IF r.err # "none"
            THEN last' = Last("new", 0, r.err, FALSE) /\ UNCHANGED heap
            ELSE /\ heap' = Append(heap, r.box)
                 /\ last' = Last("new", Len(heap) + 1, "none", FALSE))
  /\ UNCHANGED <<specArrays, out, pc, stack, result, input, wsVars>>

\* new Container(type, config, ...boxes)
NewContainer(type, config, boxes) ==
  /\ pc = "build"
  /\ Len(heap) < MaxBoxes
  /\ IF type \notin DOMAIN BOXSPEC
     THEN /\ last' = Last("new", 0, "unknown box type", FALSE)
          /\ UNCHANGED heap
     ELSE With(Container_new(heap, specArrays, type, config, boxes), LAMBDA r :
            /\ heap' = r.h
            /\ last' = Last("new", IF r.err = "none" THEN Len(heap) + 1 ELSE 0, r.err, FALSE))
  /\ UNCHANGED <<specArrays, out, pc, stack, result, input, wsVars>>

\* heap[id].set(key, value)
Set(id, key, value) ==
  /\ pc = "build"
  /\ heap' = [heap EXCEPT ![id] = Box_set(@, key, value)]
  /\ last' = Last("set", id, "none", FALSE)
  /\ UNCHANGED <<specArrays, out, pc, stack, result, input, wsVars>>

\* heap[id].add(key, element)
Add(id, key, element) ==
  /\ pc = "build"
  /\ With(Box_add(heap, id, key, element), LAMBDA r :
       /\ heap' = r.h
       /\ last' = Last("add", id, r.err, FALSE))
  /\ UNCHANGED <<specArrays, out, pc, stack, result, input, wsVars>>

\* heap[id].append(...boxes)
AppendBoxes(id, boxes) ==
  /\ pc = "build"
  /\ heap[id].isContainer
  /\ heap[id].boxSize + Len(boxes) <= MaxChildren
  /\ With(Container_append(heap, id, boxes, 1), LAMBDA r :
       /\ heap' = r.h
       /\ last' = Last("append", id, r.err, FALSE))
  /\ UNCHANGED <<specArrays, out, pc, stack, result, input, wsVars>>

\* heap[id].buffer(): what the caller built is serialized, and the buffer is
\* then loaded or parsed.
Buffer(id) ==
  /\ pc = "build"
  /\ With(Box_buffer(heap, specArrays, id), LAMBDA r :
       /\ heap' = r.h
       /\ out' = [id |-> id, bytes |-> r.b.bytes, err |-> r.b.err]
       /\ last' = Last("buffer", id, r.b.err, FALSE))
  /\ pc' = "serialized"
  /\ UNCHANGED <<specArrays, stack, result, input, wsVars>>

\* heap[id] is as new Box(type) or new Container(type) made it, of the type
\* of the box serialized.
IsFreshCopy(id) ==
  /\ out.id # 0 /\ out.id # id /\ out.err = "none"
  /\ heap[id].type = heap[out.id].type
  /\ heap[id].type \in DOMAIN BOXSPEC
  /\ heap[id] = [Box_new(specArrays, heap[id].type, NoConfig).box
                   EXCEPT !.isContainer = heap[id].isContainer]

\* heap[id].load(buffer, 0), with the buffer returned last, of a box of the type
Load(id) ==
  /\ pc = "serialized"
  /\ out.id # 0 /\ out.err = "none"
  /\ heap[id].type = heap[out.id].type
  /\ With(Box_load(heap, specArrays, id, out.bytes, 0), LAMBDA r :
       /\ heap' = r.h
       /\ specArrays' = r.sa
       /\ last' = Last("load", id, r.err, IsFreshCopy(id)))
  /\ pc' = "loaded"
  /\ UNCHANGED <<out, stack, result, input, wsVars>>

\* new Container(type).parse(data), with the buffer returned last as data, or
\* what follows the header of the box serialized (body) when that is asked for.
StartParse(type, body) ==
  /\ pc = "serialized"
  /\ out.err = "none"
  /\ With(IF body THEN subarray(out.bytes, Box_offset(heap[out.id], "type") + 4, Len(out.bytes))
          ELSE out.bytes,
          LAMBDA data :
       /\ stack' = <<Frame(Len(heap) + 1, data)>>
       /\ input' = [NoInput EXCEPT !.bytes = data])
  /\ heap' = Container_new(heap, specArrays, type, NoConfig, <<>>).h
  /\ pc' = "parse"
  /\ last' = Last("parse", Len(heap) + 1, "none",
                  body /\ heap[out.id].isContainer /\ type = heap[out.id].type)
  /\ UNCHANGED <<specArrays, out, result, wsVars>>

----------------------------------------------------------------------------
\* parse(data): one action per pass of the while loop, the recursive call of a
\* container in between.  The top frame is the call that is running.

Top == stack[Len(stack)]

\* const type = new CharArray('....'); type.load(data, 4)
boxTypeOf(data) == CharArray_load(CharArray(JStr(T["...."])), data, 4).value.v

\* A slice that drops nothing: the loop of parse stays on the box it read.
sliceFrom_all(data, n) == data

\* data.slice(n) and data.slice(begin, n), for a number n read from the data
sliceFrom(data, n) == subarray(data, MinInt(n, Len(data)), Len(data))
sliceTo(data, begin, n) == subarray(data, begin, MinInt(n, Len(data)))

ParseFail(e, sa) ==
  /\ pc' = "failed"
  /\ specArrays' = sa
  /\ last' = [last EXCEPT !.err = e]
  /\ UNCHANGED <<heap, out, stack, result, input, wsVars>>

\* this.append(box); data = data.slice(box.get('size')), in the frame at depth d
AppendAndAdvance(h, sa, d, box, newTracks) ==
  With(Container_append(h, stack[d].self, <<box>>, 1), LAMBDA r :
    IF r.err # "none" THEN ParseFail(r.err, sa)
    ELSE /\ heap' = r.h
         /\ specArrays' = sa
         /\ stack' = [i \in 1..d |->
                        IF i < d THEN stack[i]
                        ELSE [stack[d] EXCEPT
                                !.data = sliceFrom(@, Box_get(r.h[box], "size").v),
                                !.tracks = @ \o newTracks,
                                !.box = 0]]
         /\ UNCHANGED <<pc, out, result, input, last, wsVars>>)

\* The box read is a registered container: construct, load, and call its parse
\* on data.slice(box.byteLength, box.get('size')).
ParseContainer ==
  /\ pc = "parse" /\ Len(Top.data) > 0 /\ Len(heap) < MaxHeap
  /\ With(boxTypeOf(Top.data), LAMBDA boxType :
       /\ boxType \in DOMAIN BOXSPEC
       /\ BOXSPEC[boxType].is_container
       /\ With(Len(heap) + 1, LAMBDA box :
            With(Box_load(Container_new(heap, specArrays, boxType, NoConfig, <<>>).h,
                          specArrays, box, Top.data, 0),
                 LAMBDA l :
              IF l.err # "none" THEN ParseFail(l.err, l.sa)
              ELSE /\ heap' = l.h
                   /\ specArrays' = l.sa
                   /\ stack' = [stack EXCEPT ![Len(stack)].box = box]
                                 \o <<Frame(box, sliceTo(Top.data, l.h[box].byteLength,
                                                         Box_get(l.h[box], "size").v))>>
                   /\ UNCHANGED <<pc, out, result, input, last, wsVars>>)))

\* The recursive call returns: tracks.push(...boxTracks), append, advance.
ParseReturn ==
  /\ pc = "parse" /\ Len(stack) > 1 /\ Len(Top.data) = 0
  /\ AppendAndAdvance(heap, specArrays, Len(stack) - 1, stack[Len(stack) - 1].box,
                      Top.tracks)

\* The box read is registered and no container: construct, load, report the
\* track of an avcC or esds box, append, advance.
ParseLeaf ==
  /\ pc = "parse" /\ Len(Top.data) > 0 /\ Len(heap) < MaxHeap
  /\ With(boxTypeOf(Top.data), LAMBDA boxType :
       /\ boxType \in DOMAIN BOXSPEC
       /\ ~BOXSPEC[boxType].is_container
       /\ With(Len(heap) + 1, LAMBDA box :
            With(Box_load(Append(heap, Box_new(specArrays, boxType, NoConfig).box),
                          specArrays, box, Top.data, 0),
                 LAMBDA l :
              IF l.err # "none" THEN ParseFail(l.err, l.sa)
              ELSE AppendAndAdvance(l.h, l.sa, Len(stack), box,
                     IF boxType = T["avcC"] THEN <<avcCTrack(l.h[box])>>
                     ELSE IF boxType = T["esds"] THEN <<esdsTrack(l.sa, l.h[box])>>
                     ELSE <<>>))))

\* A parse that gives up at a type that is not registered
ParseUnknown_fails ==
  /\ pc = "parse" /\ Len(Top.data) > 0 /\ Len(heap) < MaxHeap
  /\ boxTypeOf(Top.data) \notin DOMAIN BOXSPEC
  /\ ParseFail("unknown box type", specArrays)

\* The type read is not registered: new Box('....'), load, box.type = box.get('type').
ParseUnknown ==
  /\ pc = "parse" /\ Len(Top.data) > 0 /\ Len(heap) < MaxHeap
  /\ boxTypeOf(Top.data) \notin DOMAIN BOXSPEC
  /\ With(Len(heap) + 1, LAMBDA box :
       With(Box_load(Append(heap, Box_new(specArrays, T["...."], NoConfig).box),
                     specArrays, box, Top.data, 0),
            LAMBDA l :
         IF l.err # "none" THEN ParseFail(l.err, l.sa)
         ELSE AppendAndAdvance([l.h EXCEPT ![box].type = Box_get(l.h[box], "type").v],
                               l.sa, Len(stack), box, <<>>)))

\* The outermost call returns its tracks.
ParseFinish ==
  /\ pc = "parse" /\ Len(stack) = 1 /\ Len(Top.data) = 0
  /\ pc' = "returned"
  /\ result' = Top.tracks
  /\ stack' = <<>>
  /\ UNCHANGED <<heap, specArrays, out, input, last, wsVars>>

----------------------------------------------------------------------------
\* Inputs of parse(): byte sequences laid out as the registry lays the boxes
\* out, each with the tracks its avcC and esds boxes stand for (kinds) and
\* whether every size in it covers its box (wellFormed).

RECURSIVE Zeros(_)
Zeros(n) == IF n = 0 THEN <<>> ELSE <<0>> \o Zeros(n - 1)

RawBox(type, payload) == BytesBE(N(8 + Len(payload)), 4) \o type \o payload

RECURSIVE ConcatBytes(_, _)
ConcatBytes(chunks, i) ==
  IF i > Len(chunks) THEN <<>> ELSE chunks[i].bytes \o ConcatBytes(chunks, i + 1)

RECURSIVE ConcatKinds(_, _)
ConcatKinds(chunks, i) ==
  IF i > Len(chunks) THEN <<>> ELSE chunks[i].kinds \o ConcatKinds(chunks, i + 1)

Leaf(type, payload) ==
  [bytes |-> RawBox(type, payload),
   kinds |-> IF type = T["avcC"] THEN <<"video">>
             ELSE IF type = T["esds"] THEN <<"audio">> ELSE <<>>,
   wellFormed |-> TRUE]

Nest(type, payload, kids) ==
  [bytes |-> RawBox(type, payload \o ConcatBytes(kids, 1)),
   kinds |-> ConcatKinds(kids, 1),
   wellFormed |-> \A i \in 1..Len(kids) : kids[i].wellFormed]

Raw(bytes) == [bytes |-> bytes, kinds |-> <<>>, wellFormed |-> FALSE]

\* avcC with one 2-byte SPS and one 1-byte PPS
avcCPayload(avc) ==
  <<1, avc[1], avc[2], avc[3], 255, 225, 0, 2, 103, 77, 1, 0, 1, 104>>

\* esds (version, flags, then the descriptors) with 2 audioConfigBytes
esdsPayload(audio) ==
  <<0, 0, 0, 0, 3, 27, 0, 1, 0, 4, 17, 64, 21, 0, 0, 0, 0, 0, 0, 0, 0, 0, 0, 0,
    5, 2, audio, 144, 6, 1, 2>>

avc1Payload ==
  Zeros(6) \o <<0, 1, 0, 0, 0, 0>> \o Zeros(12) \o <<7, 128, 4, 56, 0, 72, 0, 0, 0, 72, 0, 0>>
    \o Zeros(4) \o <<0, 1>> \o Zeros(32) \o <<0, 24, 255, 255>>

mp4aPayload ==
  Zeros(6) \o <<0, 1>> \o Zeros(8) \o <<0, 2, 0, 16, 0, 0, 0, 0, 0, 0, 187, 128>>

ChunkNames ==
  {"ftyp", "mdat", "avcC", "esds", "moov", "moof", "free", "uuid", "trak", "zero", "short", "cut"}

Chunk(name, avc, audio) ==
  CASE name = "ftyp" -> Leaf(T["ftyp"], <<105, 115, 111, 109, 0, 0, 0, 0, 109, 112, 52, 49>>)
    [] name = "mdat" -> Leaf(T["mdat"], <<1, 2, 3, 4>>)
    [] name = "avcC" -> Leaf(T["avcC"], avcCPayload(avc))
    [] name = "esds" -> Leaf(T["esds"], esdsPayload(audio))
    [] name = "moov" ->
         Nest(T["moov"], <<>>,
              <<Nest(T["trak"], <<>>, <<Nest(T["avc1"], avc1Payload, <<Leaf(T["avcC"], avcCPayload(avc))>>)>>),
                Nest(T["trak"], <<>>, <<Nest(T["mp4a"], mp4aPayload, <<Leaf(T["esds"], esdsPayload(audio))>>)>>)>>)
    [] name = "moof" ->
         Nest(T["moof"], <<>>,
              <<Leaf(T["mfhd"], <<0, 0, 0, 0, 0, 0, 0, 1>>),
                Nest(T["traf"], <<>>, <<Leaf(T["avcC"], avcCPayload(avc))>>)>>)
    [] name = "free" -> Leaf(T["free"], <<0, 0>>)
    \* a box of a type not registered that holds an avcC box
    [] name = "uuid" -> Leaf(T["uuid"], RawBox(T["avcC"], avcCPayload(avc)))
    \* a box of a type not registered inside a container, an mdat box after it
    [] name = "trak" ->
         Nest(T["trak"], <<>>, <<Leaf(T["free"], <<0, 0>>), Leaf(T["mdat"], <<1, 2, 3, 4>>)>>)
    \* a size of 0
    [] name = "zero" -> Raw(<<0, 0, 0, 0>> \o T["mdat"])
    \* a size of 4, below the 8 bytes of the header
    [] name = "short" -> Raw(<<0, 0, 0, 4>> \o T["mdat"])
    \* too short to hold a size and a type
    [] name = "cut" -> Raw(<<0, 0, 0>>)

DefaultAvc == <<77, 0, 41>>
DefaultAudio == 17

RECURSIVE ChunkList(_, _, _, _)
ChunkList(names, avc, audio, i) ==
  IF i > Len(names) THEN <<>>
  ELSE <<Chunk(names[i], avc, audio)>> \o ChunkList(names, avc, audio, i + 1)

InputOf(names, avc, audio) ==
  With(ChunkList(names, avc, audio, 1), LAMBDA chunks :
    [names |-> names, bytes |-> ConcatBytes(chunks, 1), kinds |-> ConcatKinds(chunks, 1),
     wellFormed |-> \A i \in 1..Len(chunks) : chunks[i].wellFormed,
     avc |-> avc, audio |-> audio])

\* Every sequence of at most MaxChunks chunks, then an avcC box with every
\* value of each of its three bytes, and an esds box with every value of the
\* first of the audioConfigBytes.
Inputs ==
  {InputOf(names, DefaultAvc, DefaultAudio) :
     names \in UNION {[1..n -> ChunkNames] : n \in 1..MaxChunks}}
  \cup {InputOf(<<"avcC">>, [DefaultAvc EXCEPT ![k] = v], DefaultAudio) :
          k \in 1..3, v \in 0..255}
  \cup {InputOf(<<"esds">>, DefaultAvc, v) : v \in 0..255}

\* new Container('file').parse(bytes)
InitParse ==
  /\ \E in \in Inputs :
       /\ input = in
       /\ stack = <<Frame(1, in.bytes)>>
  /\ heap = Container_new(<<>>, BOXSPEC_arrays, T["file"], NoConfig, <<>>).h
  /\ specArrays = BOXSPEC_arrays
  /\ out = NoOut
  /\ pc = "parse"
  /\ result = <<>>
  /\ last = Last("parse", 1, "none", FALSE)
  /\ NotCalled

----------------------------------------------------------------------------

\* The boxes the caller sets fields of and adds fields to.
Mutated == {id \in 1..Len(heap) : id <= MaxMutated}

Next ==
  \/ \E type \in BuildTypes : \E config \in Configs(type) : NewBox(type, config)
  \/ \E type \in ContainerTypes, boxes \in {<<>>} \cup {<<i>> : i \in 1..Len(heap)} :
       NewContainer(type, NoConfig, boxes)
  \/ \E id \in Mutated : \E i \in 1..Len(heap[id].struct) :
       /\ heap[id].struct[i].key \in SetKeys
       /\ heap[id].struct[i].element.kind # "Box"
       /\ \E value \in SetValues(heap[id].struct[i].element) :
            Set(id, heap[id].struct[i].key, value)
  \/ \E id \in Mutated, key \in AddKeys, element \in AddElements : Add(id, key, element)
  \/ \E id \in 1..Len(heap), box \in 1..Len(heap) :
       /\ id \notin Reach(heap, box)
       /\ AppendBoxes(id, <<box>>)
  \/ \E id \in 1..Len(heap) : Buffer(id)
  \/ \E id \in 1..Len(heap) : Load(id)
  \/ \E type \in {T["file"], T["moov"]}, body \in BOOLEAN : StartParse(type, body)
  \/ ParseContainer
  \/ ParseReturn
  \/ ParseLeaf
  \/ ParseUnknown
  \/ ParseFinish

Spec == Init /\ [][Next]_vars

NextParse == ParseContainer \/ ParseReturn \/ ParseLeaf \/ ParseUnknown \/ ParseFinish

SpecParse == InitParse /\ [][NextParse]_vars

SpecWs == Init /\ [][NextWs]_vars

----------------------------------------------------------------------------
\* Properties of buffer(), of the byte lengths and of construction

\* heap[id] lies at offset in bytes with its byteLength as size and its type
\* behind it, and so does every child box at its own offset.
RECURSIVE LayoutAt(_, _, _, _)
LayoutAt(h, id, bytes, offset) ==
  /\ offset + 8 <= Len(bytes)
  /\ FromBytesBE(SubSeq(bytes, offset + 1, offset + 4)) = N(h[id].byteLength)
  /\ SubSeq(bytes, offset + 5, offset + 8) = h[id].type
  /\ \A i \in 1..Len(h[id].struct) :
       h[id].struct[i].element.kind = "Box" =>
         LayoutAt(h, h[id].struct[i].element.ref, bytes, offset + h[id].struct[i].offset)

\* C1: the buffer buffer() returns for a box B has B.byteLength bytes, starts
\* with B.byteLength as a big-endian u32 followed by the characters of B.type,
\* and holds every nested child box in the same way at the child's offset.
C1_BufferLayout ==
  (pc = "serialized" /\ out.err = "none") =>
    /\ Len(out.bytes) = heap[out.id].byteLength
    /\ LayoutAt(heap, out.id, out.bytes, 0)

RECURSIVE SumOfFields(_, _, _)
SumOfFields(h, id, i) ==
  IF i > Len(h[id].struct) THEN 0
  ELSE ElementLength(h, h[id].struct[i].element) + SumOfFields(h, id, i + 1)

\* C2: in every reachable state the byteLength of every box is the sum of the
\* byteLengths of its fields, child boxes included.
C2_ByteLengthIsSum ==
  \A id \in 1..Len(heap) : heap[id].byteLength = SumOfFields(heap, id, 1)

\* C10: a box just constructed holds, in every field the merged config names,
\* the value the config gives, 0 and '' included.
C10_ConfigValueUsed ==
  (last.op = "new" /\ last.id # 0) =>
    \A key \in DOMAIN heap[last.id].config :
      Box_has(heap[last.id], key) => Box_get(heap[last.id], key) = heap[last.id].config[key]

----------------------------------------------------------------------------
\* Properties of parse()

\* C3: every pass of the loop of parse() leaves less data than it found, so
\* that parse() ends on every input, one with a size of 0 included.
C3_IterationShortens ==
  [][(pc = "parse" /\ pc' = "parse" /\ Len(stack') = Len(stack))
       => Len(stack'[Len(stack')].data) < Len(stack[Len(stack)].data)]_vars

\* The least size a box of the kind of b can have: its header.
MinSize(b) ==
  IF b.type \in DOMAIN BOXSPEC /\ BOXSPEC[b.type].box = "FullBox" THEN 12 ELSE 8

\* C4: parse() takes no box whose size is below the length of its header: it
\* fails on reading one, and nothing of the kind is among the boxes it made.
C4_UndersizedSizeFails ==
  \A id \in 2..Len(heap) :
    Box_has(heap[id], "size") =>
      ~(IsSmall(Box_get(heap[id], "size").v)
          /\ ToInt(Box_get(heap[id], "size").v) < MinSize(heap[id]))

\* C5: parse() of an esds box returns one audio track with the codec
\* "mp4a.40." and the decimal of b >> 3, b the first of the audioConfigBytes
\* in the input.
C5_AudioCodecFromInput ==
  (pc = "returned" /\ input.names = <<"esds">>) =>
    result = <<[type |-> "audio", codec |-> "mp4a.40." \o ToString(input.audio \div 8)]>>

\* b as two lowercase hexadecimal digits
Hex2(b) ==
  SubSeq("0123456789abcdef", (b \div 16) + 1, (b \div 16) + 1)
    \o SubSeq("0123456789abcdef", (b % 16) + 1, (b % 16) + 1)

\* C6: parse() of an avcC box does not fail and returns one video track with
\* the codec "avc1." and AVCProfileIndication, profile_compatibility and
\* AVCLevelIndication of the input, two lowercase hexadecimal digits each.
C6_VideoCodecFromInput ==
  input.names = <<"avcC">> =>
    /\ pc # "failed"
    /\ pc = "returned" =>
         result = <<[type |-> "video",
                     codec |-> "avc1." \o Hex2(input.avc[1]) \o Hex2(input.avc[2])
                                       \o Hex2(input.avc[3])]>>

\* parse() returned the track of an avcC box with a byte from 1 to 15, which
\* takes a padding 0.
C6_PaddedCodecReturned ==
  /\ pc = "returned" /\ input.names = <<"avcC">>
  /\ \E k \in 1..3 : input.avc[k] < 16 /\ input.avc[k] > 0
  /\ Len(result) = 1 /\ result[1].type = "video"

\* C7: parse() of boxes that are all well formed returns one track for every
\* avcC and esds box of the input at any depth, in the order of the input.
C7_OneTrackPerBoxInOrder ==
  (pc = "returned" /\ input.wellFormed) =>
    [i \in 1..Len(result) |-> result[i].type] = input.kinds

----------------------------------------------------------------------------
\* Round trips

\* The value of a field, an array by its elements.
Value(sa, b, key) ==
  IF Box_get(b, key).t = "ref" THEN sa[Box_get(b, key).v] ELSE Box_get(b, key).v

\* Every field of b is of a kind that load() reads.
Readable(b) ==
  \A i \in 1..Len(b.struct) :
    b.struct[i].element.kind \in
      {"Empty", "CharArray", "UInt8", "UInt16BE", "UInt24BE", "UInt32BE", "UInt64BE",
       "UInt8Array", "UInt16BEArray", "UInt32BEArray"}

\* C8: B' = new Box(B.type) with B'.load(B.buffer(), 0), for a box B that is no
\* container and has readable fields only, has in every field the value B has.
C8_LoadRoundTrip ==
  (pc = "loaded" /\ last.roundTrip /\ ~heap[out.id].isContainer /\ Readable(heap[out.id])) =>
    /\ last.err = "none"
    /\ \A key \in Box_keys(heap[out.id]) :
         Value(specArrays, heap[last.id], key) = Value(specArrays, heap[out.id], key)

\* The child boxes of heap[id] in order, each as its type and byteLength.
RECURSIVE Children(_, _, _)
Children(h, id, i) ==
  IF i > Len(h[id].struct) THEN <<>>
  ELSE (IF h[id].struct[i].element.kind = "Box"
        THEN <<[type |-> h[h[id].struct[i].element.ref].type,
                byteLength |-> h[h[id].struct[i].element.ref].byteLength]>>
        ELSE <<>>)
       \o Children(h, id, i + 1)

\* heap[id] holds child boxes only behind its size and type, each child with
\* the type it was constructed with in its type field.
OnlyChildren(h, id) ==
  \A i \in 1..Len(h[id].struct) :
    IF h[id].struct[i].element.kind = "Box"
    THEN Box_get(h[h[id].struct[i].element.ref], "type") = JStr(h[h[id].struct[i].element.ref].type)
    ELSE h[id].struct[i].key \in {"size", "type"}

\* C9: parse() of what follows the header in C.buffer(), by a new container of
\* the type of C, gives it children of the types and byteLengths of those of
\* C, for a container C holding child boxes only.
C9_ParseRoundTrip ==
  (pc = "returned" /\ last.op = "parse" /\ last.roundTrip /\ OnlyChildren(heap, out.id)) =>
    Children(heap, last.id, 1) = Children(heap, out.id, 1)

----------------------------------------------------------------------------
\* The registry

\* The values of the fields of new Box(type), arrays by their elements.
FreshValues(sa, type) ==
  LET box == Box_new(sa, type, NoConfig).box
  IN  [i \in 1..Len(box.struct) |-> Value(sa, box, box.struct[i].key)]

\* C11: whatever was constructed, set, added, loaded and parsed before, a box
\* of any registered type constructed with no overrides has the field values of
\* one constructed before all of it.
C11_RegistryReadOnly ==
  \A type \in DOMAIN BOXSPEC : FreshValues(specArrays, type) = FreshValues(BOXSPEC_arrays, type)


----------------------------------------------------------------------------
\* add and append

\* No two fields of heap[id] have the same name.
UniqueKeys(h, id) ==
  \A i, j \in 1..Len(h[id].struct) : h[id].struct[i].key = h[id].struct[j].key => i = j

\* C12: the names of the fields of a box are unique, and an add or append that
\* fails does so with the duplicate-field error and leaves every box as it
\* was: fields, offsets, byteLength and next child index.
C12_FailedAddLeavesBox ==
  /\ [](\A id \in 1..Len(heap) : UniqueKeys(heap, id))
  /\ [][(last'.op \in {"add", "append"} /\ last'.err # "none") =>
          (last'.err = "Trying to add existing key" /\ heap' = heap)]_vars

----------------------------------------------------------------------------
\* parse(), box by box

\* data without its first size bytes
Rest(data, size) ==
  IF IsSmall(size) /\ ToInt(size) < Len(data)
  THEN SubSeq(data, ToInt(size) + 1, Len(data)) ELSE <<>>

\* The sum of the size fields of the fields i.. of heap[id], all child boxes.
RECURSIVE SumOfSizes(_, _, _)
SumOfSizes(h, id, i) ==
  IF i > Len(h[id].struct) THEN 0
  ELSE ToInt(Box_get(h[h[id].struct[i].element.ref], "size").v) + SumOfSizes(h, id, i + 1)

\* A pass of the loop of parse, in the call it runs in: the container of the
\* call gains one field, the child box_i for its next index i, and the data
\* left is the data without the first size bytes, size the size field of the child.
OneBoxConsumed ==
  LET d == Len(stack')
      self == stack[d].self
      n == Len(heap[self].struct)
  IN  /\ Len(heap'[self].struct) = n + 1
      /\ SubSeq(heap'[self].struct, 1, n) = heap[self].struct
      /\ heap'[self].struct[n + 1].key = "box_" \o ToString(heap[self].boxSize)
      /\ heap'[self].struct[n + 1].element.kind = "Box"
      /\ heap'[self].boxSize = heap[self].boxSize + 1
      /\ stack'[d].data =
           Rest(stack[d].data, Box_get(heap'[heap'[self].struct[n + 1].element.ref], "size").v)

\* C13: every pass of the loop of parse appends one child, under the next name
\* box_i, and advances by the size field of that child; the 'file' container
\* that parsed n well-formed boxes holds n children, of the types of the input
\* in its order, whose sizes sum to the length of the input.
C13_ConsumesBoxByBox ==
  /\ [][(pc = "parse" /\ pc' = "parse" /\ Len(stack') <= Len(stack)) => OneBoxConsumed]_vars
  /\ []((pc = "returned" /\ input.wellFormed) =>
          /\ Len(heap[1].struct) = Len(input.names)
          /\ \A i \in 1..Len(heap[1].struct) :
               /\ heap[1].struct[i].key = "box_" \o ToString(i - 1)
               /\ heap[1].struct[i].element.kind = "Box"
               /\ Box_get(heap[heap[1].struct[i].element.ref], "type") = JStr(T[input.names[i]])
          /\ SumOfSizes(heap, 1, 1) = Len(input.bytes))

\* parse returned from the input of a moov box, with boxes nested in it, and
\* an mdat box.
C13_TwoBoxesParsed ==
  /\ pc = "returned" /\ input.wellFormed
  /\ input.names = <<"moov", "mdat">>
  /\ Len(heap[1].struct) = 2

----------------------------------------------------------------------------
\* Offsets

\* The sum of the byteLengths of the first n fields of heap[id].
RECURSIVE LengthBefore(_, _, _)
LengthBefore(h, id, n) ==
  IF n = 0 THEN 0
  ELSE LengthBefore(h, id, n - 1) + ElementLength(h, h[id].struct[n].element)

\* C14: in every box the first field has offset 0, the offsets do not decrease
\* in insertion order, the offset of each field is the sum of the byteLengths
\* of the fields inserted before it, and a field added by add has the
\* byteLength the box had before the call as its offset.
C14_OffsetsAreSums ==
  /\ [](\A id \in 1..Len(heap) : \A i \in 1..Len(heap[id].struct) :
          /\ i = 1 => heap[id].struct[i].offset = 0
          /\ i > 1 => heap[id].struct[i - 1].offset <= heap[id].struct[i].offset
          /\ heap[id].struct[i].offset = LengthBefore(heap, id, i - 1))
  /\ [][(last'.op = "add" /\ last'.err = "none" /\ heap' # heap) =>
          heap'[last'.id].struct[Len(heap'[last'.id].struct)].offset = heap[last'.id].byteLength]_vars

----------------------------------------------------------------------------
\* Parameter set arrays: new Box('avcC', config) with the parameter sets given
\* in the config, then buffer().  sequenceParameterSets is built with the mask
\* 0xe0, pictureParameterSets with the mask 0x00.

MaxSets == 2   \* parameter sets in one array

\* the example SPS (length 20) and PPS (length 4) of the registry
ExampleSPS ==
  <<103, 77, 0, 41, 226, 144, 15, 0, 68, 252, 184, 11, 112, 16, 16, 26, 65, 226, 68, 84>>
ExamplePPS == <<104, 238, 60, 128>>

ParameterSetPool == {<<>>, <<255>>, ExamplePPS, ExampleSPS}

ParameterSets == UNION {[1..n -> ParameterSetPool] : n \in 0..MaxSets}

\* An array of byte arrays, as a value.
ByteArrays(sets) == JArr2([i \in 1..Len(sets) |-> [k \in 1..Len(sets[i]) |-> N(sets[i][k])]])

AvcCConfig(sps, pps) ==
  "sequenceParameterSets" :> ByteArrays(sps) @@ "pictureParameterSets" :> ByteArrays(pps)

NextAvcC ==
  \/ /\ Len(heap) = 0
     /\ \E sps \in ParameterSets, pps \in ParameterSets : NewBox(T["avcC"], AvcCConfig(sps, pps))
  \/ \E id \in 1..Len(heap) : Buffer(id)

SpecAvcC == Init /\ [][NextAvcC]_vars

\* The parameter sets a box was given under key, as sequences of bytes.
SetsOf(box, key) ==
  [i \in 1..Len(box.config[key].v) |->
     [k \in 1..Len(box.config[key].v[i]) |-> ToInt(box.config[key].v[i][k])]]

\* For each parameter set from the i-th on: its length as a big-endian u16,
\* then its bytes.
RECURSIVE SetsLayout(_, _)
SetsLayout(sets, i) ==
  IF i > Len(sets) THEN <<>>
  ELSE <<Len(sets[i]) \div 256, Len(sets[i]) % 256>> \o sets[i] \o SetsLayout(sets, i + 1)

RECURSIVE SetsLength(_, _)
SetsLength(sets, i) ==
  IF i > Len(sets) THEN 0 ELSE 2 + Len(sets[i]) + SetsLength(sets, i + 1)

\* The element under key of the box serialized is as long as, and wrote, the
\* byte mask | n (mask + n, for the masks 0xe0 and 0x00 and n below 32) and
\* then the parameter sets.
SectionWritten(key, mask) ==
  LET box == heap[out.id]
      sets == SetsOf(box, key)
      offset == Box_offset(box, key)
  IN  /\ Box_element(box, key).byteLength = 1 + SetsLength(sets, 1)
      /\ SubSeq(out.bytes, offset + 1, offset + 1 + SetsLength(sets, 1))
           = <<mask + Len(sets)>> \o SetsLayout(sets, 1)

\* C15: a ParameterSetArray built with mask m from ps_1..ps_n has byteLength
\* 1 + sum(2 + len(ps_i)) and writes the byte m | n, then for each ps_i its
\* length as a big-endian u16 and its bytes; with mask 0xe0 and the one 20-byte
\* SPS it starts e1 00 14, with mask 0x00 and the one 4-byte PPS 01 00 04.
C15_ParameterSetLayout ==
  pc = "serialized" =>
    /\ out.err = "none"
    /\ SectionWritten("sequenceParameterSets", 224)
    /\ SectionWritten("pictureParameterSets", 0)
    /\ SetsOf(heap[out.id], "sequenceParameterSets") = <<ExampleSPS>> =>
         SubSeq(out.bytes, Box_offset(heap[out.id], "sequenceParameterSets") + 1,
                Box_offset(heap[out.id], "sequenceParameterSets") + 3) = <<225, 0, 20>>
    /\ SetsOf(heap[out.id], "pictureParameterSets") = <<ExamplePPS>> =>
         SubSeq(out.bytes, Box_offset(heap[out.id], "pictureParameterSets") + 1,
                Box_offset(heap[out.id], "pictureParameterSets") + 3) = <<1, 0, 4>>

\* An avcC box with the example SPS and the example PPS was serialized.
C15_ExampleSetsSerialized ==
  /\ pc = "serialized" /\ out.err = "none"
  /\ SetsOf(heap[out.id], "sequenceParameterSets") = <<ExampleSPS>>
  /\ SetsOf(heap[out.id], "pictureParameterSets") = <<ExamplePPS>>
  /\ Len(out.bytes) = 8 + 5 + 23 + 7

----------------------------------------------------------------------------
\* openWebSocket

\* C16: without a tokenUri no token request is sent and no second WebSocket is
\* opened, and once the first socket failed the promise is rejected with the
\* original error.
C16_NoTokenNoFallback ==
  webSocketConfig.tokenUri = "undefined" =>
    /\ request = "none"
    /\ ws2 = NoSocket
    /\ events.WebSocketErrorStream > 0 =>
         (promise.state = "resolved" \/ promise = [state |-> "rejected", value |-> "originalError"])

\* C17: the promise of a call is pending for timeout ms at most: when no
\* socket opened and nothing rejected it before, the countdown rejects it.
C17_SettledAfterTimeout ==
  /\ promise.state = "pending" => now <= webSocketConfig.timeout
  /\ (promise.state = "rejected" /\ now > webSocketConfig.timeout
        /\ ws.readyState = "CONNECTING" /\ ws2.readyState \in {"none", "CONNECTING"}) =>
       promise.value = "websocket connection timed out"

\* The socket the promise resolved with.
ResolvedSocket == IF promise.value = "ws2" THEN ws2 ELSE ws

\* C18: WebSocketStreamTimeout is emitted once at most, and when the promise
\* resolved with a socket only if that socket, the second one included, got no
\* message for more than TIMEOUT_INTERVAL.
C18_StreamTimeoutOnSilence ==
  /\ [](events.WebSocketStreamTimeout <= 1)
  /\ [][(events'.WebSocketStreamTimeout > events.WebSocketStreamTimeout
           /\ promise.state = "resolved") =>
          now - ResolvedSocket.received > TIMEOUT_INTERVAL]_vars

----------------------------------------------------------------------------
\* Box.load

\* What load must leave alone in heap[id]: its byteLength and, field by field
\* in the order of the struct, the name, the offset and the byteLength.
Layout(h, id) ==
  [byteLength |-> h[id].byteLength,
   fields |-> [i \in 1..Len(h[id].struct) |->
                 [key |-> h[id].struct[i].key,
                  offset |-> h[id].struct[i].offset,
                  byteLength |-> ElementLength(h, h[id].struct[i].element)]]]

\* C19: load(buffer, offset) changes field values only: the byteLength of
\* every box, its field names, and the offset and byteLength of every field are
\* after the call what they were before it, whether the call fails or not.
C19_LoadKeepsLayout ==
  [][(pc = "serialized" /\ pc' = "loaded") =>
       /\ Len(heap') = Len(heap)
       /\ \A id \in 1..Len(heap) : Layout(heap', id) = Layout(heap, id)]_vars

\* A box as constructed was loaded with no error and holds other values than
\* the defaults now.
C19_LoadedNewValues ==
  /\ pc = "loaded" /\ last.op = "load" /\ last.err = "none" /\ last.roundTrip
  /\ heap[last.id].struct # Box_new(BOXSPEC_arrays, heap[last.id].type, NoConfig).box.struct

----------------------------------------------------------------------------
\* Box.copy, field by field

\* A buffer of n bytes, every byte of it v
Filled(n, v) == [bytes |-> [i \in 1..n |-> v], err |-> "none"]

\* The bytes of a buffer of n bytes, all v before, that element.copy(buffer,
\* entry.offset) leaves at another value outside the slice of the entry.
Strays(sa, entry, n, v) ==
  LET b == Element_copy(sa, entry.element, Filled(n, v), entry.offset)
  IN  {k \in 1..n : /\ (k <= entry.offset \/ k > entry.offset + entry.element.byteLength)
                    /\ b.bytes[k] # v}

\* C20: when a box is serialized, the copy of each field of it and of the
\* boxes below it stores only inside [entry.offset, entry.offset +
\* element.byteLength), whatever the fields were set to before: a buffer of
\* zeros and a buffer of 255s keep every byte outside that slice.
C20_FieldsWriteInsideSlice ==
  pc = "serialized" =>
    \A id \in Reach(heap, out.id) : \A i \in 1..Len(heap[id].struct) :
      heap[id].struct[i].element.kind # "Box" =>
        /\ Strays(specArrays, heap[id].struct[i], heap[id].byteLength, 0) = {}
        /\ Strays(specArrays, heap[id].struct[i], heap[id].byteLength, 255) = {}

----------------------------------------------------------------------------
\* Container.parse, the type read not registered

\* The box parse constructed last is the last child of heap[self].
LastChild(h, self) ==
  /\ Len(h[self].struct) > 0
  /\ h[self].struct[Len(h[self].struct)].element = [kind |-> "Box", ref |-> Len(h)]

\* C21: when the data of a call of parse starts with a size and four
\* characters that are no registered type, the pass does not fail: it appends
\* one box that is no container and has the fields size and type only, its type
\* attribute the four bytes read and its size field the size read, makes no
\* recursive call, adds no track, and goes on size bytes further.
C21_UnknownTypeKept ==
  [][(pc = "parse" /\ Len(Top.data) >= 8 /\ boxTypeOf(Top.data) \notin DOMAIN BOXSPEC) =>
       LET data == Top.data
           d == Len(stack)
           box == heap'[Len(heap')]
       IN  /\ pc' = "parse"
           /\ Len(stack') = d
           /\ Len(heap') = Len(heap) + 1
           /\ LastChild(heap', stack[d].self)
           /\ ~box.isContainer
           /\ box.type = SubSeq(data, 5, 8)
           /\ Box_keys(box) = {"size", "type"}
           /\ Box_get(box, "type") = JStr(SubSeq(data, 5, 8))
           /\ Box_get(box, "size") = JNum(FromBytesBE(SubSeq(data, 1, 4)))
           /\ stack'[d].tracks = stack[d].tracks
           /\ stack'[d].data = Rest(data, FromBytesBE(SubSeq(data, 1, 4)))]_vars

\* parse returned from a box of a type not registered that holds an avcC box,
\* and an mdat box after it: two children, no track.
C21_UnknownThenNext ==
  /\ pc = "returned"
  /\ input.names = <<"uuid", "mdat">>
  /\ Len(heap[1].struct) = 2
  /\ heap[heap[1].struct[1].element.ref].type = T["uuid"]
  /\ heap[heap[1].struct[2].element.ref].type = T["mdat"]
  /\ result = <<>>

----------------------------------------------------------------------------
\* The 'file' container

\* The serializations of the fields i.. of heap[id], all child boxes, one
\* after the other: [bytes, err].
RECURSIVE ChildBuffers(_, _, _, _)
ChildBuffers(h, sa, id, i) ==
  IF i > Len(h[id].struct) THEN [bytes |-> <<>>, err |-> "none"]
  ELSE LET b == Box_buffer(h, sa, h[id].struct[i].element.ref).b
           rest == ChildBuffers(h, sa, id, i + 1)
       IN  [bytes |-> b.bytes \o rest.bytes,
            err |-> IF b.err # "none" THEN b.err ELSE rest.err]

\* C22: buffer() on a Container('file') that holds child boxes only, one at
\* least, each of which can be serialized, succeeds and returns the
\* serializations of the children one after the other, nothing else.
C22_FileIsItsChildren ==
  (/\ pc = "serialized"
   /\ heap[out.id].type = T["file"] /\ heap[out.id].isContainer
   /\ Len(heap[out.id].struct) > 0
   /\ \A i \in 1..Len(heap[out.id].struct) : heap[out.id].struct[i].element.kind = "Box"
   /\ ChildBuffers(heap, specArrays, out.id, 1).err = "none") =>
    /\ out.err = "none"
    /\ out.bytes = ChildBuffers(heap, specArrays, out.id, 1).bytes

----------------------------------------------------------------------------
\* openWebSocket: the open event and the promise

\* C23: WebSocketOpenStream is emitted for a call only if its promise is
\* resolved with the socket that opened; in particular not once the countdown
\* rejected the promise with 'websocket connection timed out'.
C23_OpenEventMeansResolved ==
  events.WebSocketOpenStream > 0 => promise = [state |-> "resolved", value |-> "ws"]

====
